---- MODULE Spec2Model ----
(***************************************************************************)
(* CHIP-8 emulator (orcalinux/chip8-emulator): the machine state chip8_t,  *)
(* the opcode handlers of chip8.c, the 60 Hz timer clock, the SDL event    *)
(* handler and the host loop of main.c, as one state machine.              *)
(***************************************************************************)
EXTENDS Integers, Sequences, FiniteSets, TLC

VARIABLES
    emu,        \* the chip8_t instance of main()
    audio,      \* the file-scope state of audio.c and the mixer channel
    run,        \* the inputs of this run: ROM file, configuration, host budget
    phase,      \* position of main(): "start" (before the load), "loop", "exit"
    running,    \* main()'s local flag `running`
    lastCount,  \* the static lastCount of chip8_timers_tick_60hz
    clock,      \* SDL_GetPerformanceCounter(), the host's monotonic counter
    nevents,    \* number of SDL events the host loop has polled so far
    last,       \* history: the last call of the cycle: its pc and opcode (-1
                \* when the fetch was refused), whether it stopped the machine,
                \* the event count and clock at the call, and the clock at
                \* the first call of the timer tick (-1 before it)
    callsite,   \* history: callsite[d] = address of the CALL that filled stack[d]
    other,      \* a second chip8_t instance of the process; main() has none
    held        \* the keypad keys whose keyboard key is physically down

vars == <<emu, audio, run, phase, running, lastCount, clock, nevents, last, callsite,
          other, held>>

-----------------------------------------------------------------------------
(* Architectural constants                                                 *)

CHIP8_MEMORY_SIZE == 4096
CHIP8_ROM_ENTRY_POINT == 512
DISPLAY_WIDTH == 64
DISPLAY_HEIGHT == 32
STACK_DEPTH == 16

\* SDL_GetPerformanceFrequency(): counter ticks per second
PerfFrequency == 1000

(* Bounds of the explored inputs *)
MaxEvents == 2      \* events the host delivers in a run
MaxClock == 4       \* times the clock advances in a run
FairClock == 2      \* times the clock advances in a run of the fair host loop
ClockStep == 11     \* counter ticks by which the clock advances at a time

Byte == 0..255

chip8_fontset ==
    << 240, 144, 144, 144, 240,    32,  96,  32,  32, 112,
       240,  16, 240, 128, 240,   240,  16, 240,  16, 240,
       144, 144, 240,  16,  16,   240, 128, 240,  16, 240,
       240, 128, 240, 144, 240,   240,  16,  32,  64,  64,
       240, 144, 240, 144, 240,   240, 144, 240,  16, 240,
       240, 144, 240, 144, 144,   224, 144, 224, 144, 224,
       240, 128, 128, 128, 240,   224, 144, 144, 144, 224,
       240, 128, 240, 128, 240,   240, 128, 240, 128, 128 >>

-----------------------------------------------------------------------------
(* Bit operations on bytes, as C's &, | and ^ compute them                  *)

RECURSIVE BitAnd(_, _)
BitAnd(a, b) ==
    IF a = 0 \/ b = 0 THEN 0
    ELSE (a % 2) * (b % 2) + 2 * BitAnd(a \div 2, b \div 2)

RECURSIVE BitOr(_, _)
BitOr(a, b) ==
    IF a = 0 THEN b
    ELSE IF b = 0 THEN a
    ELSE (IF a % 2 = 1 \/ b % 2 = 1 THEN 1 ELSE 0) + 2 * BitOr(a \div 2, b \div 2)

RECURSIVE BitXor(_, _)
BitXor(a, b) ==
    IF a = 0 THEN b
    ELSE IF b = 0 THEN a
    ELSE (((a % 2) + (b % 2)) % 2) + 2 * BitXor(a \div 2, b \div 2)

\* uint8_t and uint16_t arithmetic wraps
U8(v) == v % 256
U16(v) == v % 65536

-----------------------------------------------------------------------------
(* chip8.c: decode                                                          *)

decode_opcode(opcode) ==
    [ opcode |-> opcode,
      nnn    |-> opcode % 4096,             \* opcode & 0x0FFF
      kk     |-> opcode % 256,              \* opcode & 0x00FF
      x      |-> (opcode \div 256) % 16,    \* (opcode >> 8) & 0x0F
      y      |-> (opcode \div 16) % 16,     \* (opcode >> 4) & 0x0F
      n      |-> opcode % 16 ]              \* opcode & 0x000F

-----------------------------------------------------------------------------
(* chip8.c: opcode handlers.  Each takes the machine e and the decoded      *)
(* instruction and yields the machine after the handler has run.           *)

\* handle_cls that forgets to advance pc
M_handle_cls_no_advance(e, instr) ==
    [e EXCEPT !.display = [idx \in 0..(DISPLAY_WIDTH * DISPLAY_HEIGHT - 1) |-> 0]]

handle_cls(e, instr) ==
    [e EXCEPT !.display = [idx \in 0..(DISPLAY_WIDTH * DISPLAY_HEIGHT - 1) |-> 0],
              !.pc = U16(e.pc + 2)]

\* handle_ret that stops the machine on an empty stack
M_handle_ret_underflow_stops(e, instr) ==
    IF e.sp > 0
    THEN [e EXCEPT !.sp = e.sp - 1,
                   !.pc = e.stack[e.sp - 1]]
    ELSE [e EXCEPT !.state = "STOPPED"]

handle_ret(e, instr) ==
    IF e.sp > 0
    THEN [e EXCEPT !.sp = e.sp - 1,
                   !.pc = e.stack[e.sp - 1]]
    ELSE [e EXCEPT !.pc = U16(e.pc + 2)]

handle_0xxx(e, instr) ==
    CASE instr.opcode = 224 -> handle_cls(e, instr)     \* 0x00E0
      [] instr.opcode = 238 -> handle_ret(e, instr)     \* 0x00EE
      [] OTHER -> [e EXCEPT !.pc = U16(e.pc + 2)]

handle_jp(e, instr) ==
    [e EXCEPT !.pc = instr.nnn]

\* handle_call whose depth test is off by one
M_handle_call_off_by_one(e, instr) ==
    IF e.sp <= 16
    THEN [e EXCEPT !.stack[e.sp] = e.pc,
                   !.sp = e.sp + 1,
                   !.pc = instr.nnn]
    ELSE [e EXCEPT !.state = "STOPPED"]

\* Variant of CALL: on overflow the top stack entry is overwritten
M_handle_call_overflow_clobber(e, instr) ==
    IF e.sp < 16
    THEN [e EXCEPT !.stack[e.sp] = e.pc, !.sp = e.sp + 1, !.pc = instr.nnn]
    ELSE [e EXCEPT !.stack[15] = e.pc, !.state = "STOPPED"]

handle_call(e, instr) ==
    IF e.sp < 16
    THEN [e EXCEPT !.stack[e.sp] = e.pc,
                   !.sp = e.sp + 1,
                   !.pc = instr.nnn]
    ELSE [e EXCEPT !.state = "STOPPED"]

handle_se_vx_kk(e, instr) ==
    IF e.V[instr.x] = instr.kk
    THEN [e EXCEPT !.pc = U16(e.pc + 4)]
    ELSE [e EXCEPT !.pc = U16(e.pc + 2)]

handle_sne_vx_kk(e, instr) ==
    IF e.V[instr.x] # instr.kk
    THEN [e EXCEPT !.pc = U16(e.pc + 4)]
    ELSE [e EXCEPT !.pc = U16(e.pc + 2)]

\* handle_se_vx_vy that compares V[x] with the number y, not with V[y]
M_handle_se_vx_vy_number(e, instr) ==
    IF e.V[instr.x] = instr.y
    THEN [e EXCEPT !.pc = U16(e.pc + 4)]
    ELSE [e EXCEPT !.pc = U16(e.pc + 2)]

handle_se_vx_vy(e, instr) ==
    IF e.V[instr.x] = e.V[instr.y]
    THEN [e EXCEPT !.pc = U16(e.pc + 4)]
    ELSE [e EXCEPT !.pc = U16(e.pc + 2)]

handle_ld_vx_kk(e, instr) ==
    [e EXCEPT !.V[instr.x] = instr.kk,
              !.pc = U16(e.pc + 2)]

\* handle_add_vx_kk that reports the carry in VF
M_handle_add_vx_kk_carry(e, instr) ==
    [e EXCEPT !.V[15] = IF e.V[instr.x] + instr.kk > 255 THEN 1 ELSE 0,
              !.V[instr.x] = U8(e.V[instr.x] + instr.kk),
              !.pc = U16(e.pc + 2)]

handle_add_vx_kk(e, instr) ==
    [e EXCEPT !.V[instr.x] = U8(e.V[instr.x] + instr.kk),
              !.pc = U16(e.pc + 2)]

\* The cases of handle_8xxx that write the flag.  The statements run in the
\* order of the source: the flag is written first, and the reads of V that
\* follow see the flag.
\* case 0x4 with the carry test off by one
M_handle_8xxx_add_carry(e, x, y) ==
    LET sum == e.V[x] + e.V[y]
        e1  == [e EXCEPT !.V[15] = IF sum >= 255 THEN 1 ELSE 0]
    IN  [e1 EXCEPT !.V[x] = sum % 256]

handle_8xxx_add(e, x, y) ==                                   \* case 0x4
    LET sum == e.V[x] + e.V[y]
        e1  == [e EXCEPT !.V[15] = IF sum > 255 THEN 1 ELSE 0]
    IN  [e1 EXCEPT !.V[x] = sum % 256]

handle_8xxx_sub(e, x, y) ==                                   \* case 0x5
    LET e1 == [e EXCEPT !.V[15] = IF e.V[x] >= e.V[y] THEN 1 ELSE 0]
    IN  [e1 EXCEPT !.V[x] = U8(e1.V[x] - e1.V[y])]

handle_8xxx_shr(e, x) ==                                      \* case 0x6
    LET e1 == [e EXCEPT !.V[15] = e.V[x] % 2]
    IN  [e1 EXCEPT !.V[x] = e1.V[x] \div 2]

handle_8xxx_subn(e, x, y) ==                                  \* case 0x7
    LET e1 == [e EXCEPT !.V[15] = IF e.V[y] >= e.V[x] THEN 1 ELSE 0]
    IN  [e1 EXCEPT !.V[x] = U8(e1.V[y] - e1.V[x])]

handle_8xxx_shl(e, x) ==                                      \* case 0xE
    LET e1 == [e EXCEPT !.V[15] = (e.V[x] \div 128) % 2]
    IN  [e1 EXCEPT !.V[x] = U8(e1.V[x] * 2)]

handle_8xxx(e, instr) ==
    LET x == instr.x
        y == instr.y
        r == CASE instr.n = 0  -> [e EXCEPT !.V[x] = e.V[y]]
               [] instr.n = 1  -> [e EXCEPT !.V[x] = BitOr(e.V[x], e.V[y])]
               [] instr.n = 2  -> [e EXCEPT !.V[x] = BitAnd(e.V[x], e.V[y])]
               [] instr.n = 3  -> [e EXCEPT !.V[x] = BitXor(e.V[x], e.V[y])]
               [] instr.n = 4  -> handle_8xxx_add(e, x, y)
               [] instr.n = 5  -> handle_8xxx_sub(e, x, y)
               [] instr.n = 6  -> handle_8xxx_shr(e, x)
               [] instr.n = 7  -> handle_8xxx_subn(e, x, y)
               [] instr.n = 14 -> handle_8xxx_shl(e, x)
               [] OTHER -> e
    IN  [r EXCEPT !.pc = U16(e.pc + 2)]

handle_sne_vx_vy(e, instr) ==
    IF e.V[instr.x] # e.V[instr.y]
    THEN [e EXCEPT !.pc = U16(e.pc + 4)]
    ELSE [e EXCEPT !.pc = U16(e.pc + 2)]

\* handle_ld_i_nnn that keeps only the low byte of the address
M_handle_ld_i_nnn_low_byte(e, instr) ==
    [e EXCEPT !.I = instr.nnn % 256,
              !.pc = U16(e.pc + 2)]

handle_ld_i_nnn(e, instr) ==
    [e EXCEPT !.I = instr.nnn,
              !.pc = U16(e.pc + 2)]

handle_jp_v0_nnn(e, instr) ==
    [e EXCEPT !.pc = (e.V[0] + instr.nnn) % 4096]

\* rnd is the byte rand() & 0xFF delivers
handle_rnd_vx_kk(e, instr, rnd) ==
    [e EXCEPT !.V[instr.x] = BitAnd(rnd, instr.kk),
              !.pc = U16(e.pc + 2)]

\* Variant of the inner loop: a set screen pixel counts as a collision
\* whatever the sprite bit is
RECURSIVE M_drw_cols_collide_any(_, _, _, _, _, _)
M_drw_cols_collide_any(e, sprite_byte, x, y, row, col) ==
    IF col >= 8 THEN e
    ELSE LET pixel == (sprite_byte \div (2 ^ (7 - col))) % 2
             dst_x == x + col
             dst_y == y + row
         IN  IF dst_x >= 64 \/ dst_y >= 32
             THEN M_drw_cols_collide_any(e, sprite_byte, x, y, row, col + 1)
             ELSE LET screen_idx == dst_y * 64 + dst_x
                      e1 == IF e.display[screen_idx] # 0
                            THEN [e EXCEPT !.V[15] = 1]
                            ELSE e
                      e2 == [e1 EXCEPT !.display[screen_idx] =
                                           BitXor(e1.display[screen_idx], pixel)]
                  IN  M_drw_cols_collide_any(e2, sprite_byte, x, y, row, col + 1)

\* Variant of the inner loop: pixels past the right or bottom edge wrap
RECURSIVE M_drw_cols_wrap(_, _, _, _, _, _)
M_drw_cols_wrap(e, sprite_byte, x, y, row, col) ==
    IF col >= 8 THEN e
    ELSE LET pixel == (sprite_byte \div (2 ^ (7 - col))) % 2
             dst_x == (x + col) % 64
             dst_y == (y + row) % 32
             screen_idx == dst_y * 64 + dst_x
             e1 == IF e.display[screen_idx] # 0 /\ pixel # 0
                   THEN [e EXCEPT !.V[15] = 1]
                   ELSE e
             e2 == [e1 EXCEPT !.display[screen_idx] =
                                  BitXor(e1.display[screen_idx], pixel)]
         IN  M_drw_cols_wrap(e2, sprite_byte, x, y, row, col + 1)

\* Variant of the inner loop: the sprite bit is OR-ed onto the screen
RECURSIVE M_drw_cols_or(_, _, _, _, _, _)
M_drw_cols_or(e, sprite_byte, x, y, row, col) ==
    IF col >= 8 THEN e
    ELSE LET pixel == (sprite_byte \div (2 ^ (7 - col))) % 2
             dst_x == x + col
             dst_y == y + row
         IN  IF dst_x >= 64 \/ dst_y >= 32
             THEN M_drw_cols_or(e, sprite_byte, x, y, row, col + 1)
             ELSE LET screen_idx == dst_y * 64 + dst_x
                      e1 == IF e.display[screen_idx] # 0 /\ pixel # 0
                            THEN [e EXCEPT !.V[15] = 1]
                            ELSE e
                      e2 == [e1 EXCEPT !.display[screen_idx] =
                                           BitOr(e1.display[screen_idx], pixel)]
                  IN  M_drw_cols_or(e2, sprite_byte, x, y, row, col + 1)

\* The inner loop of DRW: the 8 pixels of one sprite row
RECURSIVE drw_cols(_, _, _, _, _, _)
drw_cols(e, sprite_byte, x, y, row, col) ==
    IF col >= 8 THEN e
    ELSE LET pixel == (sprite_byte \div (2 ^ (7 - col))) % 2
             dst_x == x + col
             dst_y == y + row
         IN  IF dst_x >= 64 \/ dst_y >= 32
             THEN drw_cols(e, sprite_byte, x, y, row, col + 1)
             ELSE LET screen_idx == dst_y * 64 + dst_x
                      e1 == IF e.display[screen_idx] # 0 /\ pixel # 0
                            THEN [e EXCEPT !.V[15] = 1]
                            ELSE e
                      e2 == [e1 EXCEPT !.display[screen_idx] =
                                           BitXor(e1.display[screen_idx], pixel)]
                  IN  drw_cols(e2, sprite_byte, x, y, row, col + 1)

\* The outer loop of DRW that goes on past the end of memory: a row from
\* there is drawn as the byte FF
RECURSIVE M_drw_rows_past_end(_, _, _, _, _)
M_drw_rows_past_end(e, x, y, height, row) ==
    IF row >= height THEN e
    ELSE IF e.I + row >= CHIP8_MEMORY_SIZE
         THEN M_drw_rows_past_end(drw_cols(e, 255, x, y, row, 0),
                                  x, y, height, row + 1)
    ELSE M_drw_rows_past_end(drw_cols(e, e.memory[e.I + row], x, y, row, 0),
                             x, y, height, row + 1)

\* The outer loop of DRW: the rows, ended early at the end of memory
RECURSIVE drw_rows(_, _, _, _, _)
drw_rows(e, x, y, height, row) ==
    IF row >= height THEN e
    ELSE IF e.I + row >= CHIP8_MEMORY_SIZE THEN e
    ELSE drw_rows(drw_cols(e, e.memory[e.I + row], x, y, row, 0), x, y, height, row + 1)

handle_drw_vx_vy_n(e, instr) ==
    LET x == e.V[instr.x] % 64
        y == e.V[instr.y] % 32
        height == instr.n
        e0 == [e EXCEPT !.V[15] = 0]
        e1 == drw_rows(e0, x, y, height, 0)
    IN  [e1 EXCEPT !.pc = U16(e.pc + 2)]

\* keys[idx] as the handlers read it.  keys has 16 cells; an index past the
\* array is an out-of-bounds read whose value oob the build decides.
read_key(e, idx, oob) == IF idx < 16 THEN e.keys[idx] ELSE oob

handle_exxx(e, instr, oob) ==
    CASE instr.kk = 158 ->                                    \* 0x9E
            IF read_key(e, e.V[instr.x], oob)
            THEN [e EXCEPT !.pc = U16(e.pc + 4)]
            ELSE [e EXCEPT !.pc = U16(e.pc + 2)]
      [] instr.kk = 161 ->                                    \* 0xA1
            IF ~read_key(e, e.V[instr.x], oob)
            THEN [e EXCEPT !.pc = U16(e.pc + 4)]
            ELSE [e EXCEPT !.pc = U16(e.pc + 2)]
      [] OTHER -> [e EXCEPT !.pc = U16(e.pc + 2)]

\* Variant of FX0A's scan: from key 15 downwards
RECURSIVE M_first_key_from_top(_, _)
M_first_key_from_top(e, i) ==
    IF i >= 16 THEN 16
    ELSE IF e.keys[15 - i] THEN 15 - i
    ELSE M_first_key_from_top(e, i + 1)

\* FX0A's scan: the first i in i..15 with keys[i], or 16 when there is none
RECURSIVE first_key(_, _)
first_key(e, i) ==
    IF i >= 16 THEN 16
    ELSE IF e.keys[i] THEN i
    ELSE first_key(e, i + 1)

\* FX55's loop without the test against the end of memory: an address past
\* it comes back to the start
RECURSIVE M_store_regs_wraps(_, _, _)
M_store_regs_wraps(e, x, i2) ==
    IF i2 > x THEN e
    ELSE M_store_regs_wraps(
             [e EXCEPT !.memory[(e.I + i2) % CHIP8_MEMORY_SIZE] = e.V[i2]], x, i2 + 1)

\* FX55's loop
RECURSIVE store_regs(_, _, _)
store_regs(e, x, i2) ==
    IF i2 > x THEN e
    ELSE IF e.I + i2 < CHIP8_MEMORY_SIZE
         THEN store_regs([e EXCEPT !.memory[e.I + i2] = e.V[i2]], x, i2 + 1)
         ELSE store_regs(e, x, i2 + 1)

\* FX65's loop ending one register early
RECURSIVE M_load_regs_short(_, _, _)
M_load_regs_short(e, x, i2) ==
    IF i2 >= x THEN e
    ELSE IF e.I + i2 < CHIP8_MEMORY_SIZE
         THEN M_load_regs_short([e EXCEPT !.V[i2] = e.memory[e.I + i2]], x, i2 + 1)
         ELSE M_load_regs_short(e, x, i2 + 1)

\* FX65's loop
RECURSIVE load_regs(_, _, _)
load_regs(e, x, i2) ==
    IF i2 > x THEN e
    ELSE IF e.I + i2 < CHIP8_MEMORY_SIZE
         THEN load_regs([e EXCEPT !.V[i2] = e.memory[e.I + i2]], x, i2 + 1)
         ELSE load_regs(e, x, i2 + 1)

\* FX0A: wait for a key
handle_fxxx_wait_key(e, x) ==
    LET i == first_key(e, 0)
    IN  IF i < 16
        THEN [e EXCEPT !.V[x] = i, !.pc = U16(e.pc + 2)]
        ELSE e

\* FX1E that reports an index past 0xFFF in VF
M_handle_fxxx_add_i_flags(e, x) ==
    LET sum == U16(e.I + e.V[x])
    IN  [e EXCEPT !.V[15] = IF sum > 4095 THEN 1 ELSE 0,
                  !.I = sum,
                  !.pc = U16(e.pc + 2)]

\* case 0x1E: ADD I, Vx
handle_fxxx_add_i(e, x) ==
    [e EXCEPT !.I = U16(e.I + e.V[x]), !.pc = U16(e.pc + 2)]

\* FX33 whose bounds test admits I + 2 = 4096
M_handle_fxxx_bcd_bound(e, x) ==
    LET value == e.V[x]
        e1 == IF e.I + 2 <= CHIP8_MEMORY_SIZE
              THEN [e EXCEPT !.memory[e.I + 0] = value \div 100,
                             !.memory[e.I + 1] = (value \div 10) % 10,
                             !.memory[e.I + 2] = value % 10]
              ELSE e
    IN  [e1 EXCEPT !.pc = U16(e.pc + 2)]

\* case 0x33: LD B, Vx
handle_fxxx_bcd(e, x) ==
    LET value == e.V[x]
        e1 == IF e.I + 2 < CHIP8_MEMORY_SIZE
              THEN [e EXCEPT !.memory[e.I + 0] = value \div 100,
                             !.memory[e.I + 1] = (value \div 10) % 10,
                             !.memory[e.I + 2] = value % 10]
              ELSE e
    IN  [e1 EXCEPT !.pc = U16(e.pc + 2)]

handle_fxxx(e, instr) ==
    LET x == instr.x IN
    CASE instr.kk = 7 ->                                      \* 0x07
            [e EXCEPT !.V[x] = e.delay_timer, !.pc = U16(e.pc + 2)]
      [] instr.kk = 10 ->                                     \* 0x0A
            handle_fxxx_wait_key(e, x)
      [] instr.kk = 21 ->                                     \* 0x15
            [e EXCEPT !.delay_timer = e.V[x], !.pc = U16(e.pc + 2)]
      [] instr.kk = 24 ->                                     \* 0x18
            [e EXCEPT !.sound_timer = e.V[x], !.pc = U16(e.pc + 2)]
      [] instr.kk = 30 ->                                     \* 0x1E
            handle_fxxx_add_i(e, x)
      [] instr.kk = 41 ->                                     \* 0x29
            [e EXCEPT !.I = U16(e.V[x] * 5), !.pc = U16(e.pc + 2)]
      [] instr.kk = 51 ->                                     \* 0x33
            handle_fxxx_bcd(e, x)
      [] instr.kk = 85 ->                                     \* 0x55
            [store_regs(e, x, 0) EXCEPT !.pc = U16(e.pc + 2)]
      [] instr.kk = 101 ->                                    \* 0x65
            [load_regs(e, x, 0) EXCEPT !.pc = U16(e.pc + 2)]
      [] OTHER -> [e EXCEPT !.pc = U16(e.pc + 2)]

\* Dispatch by the high nibble
opcode_table(high_nibble, e, instr, rnd, oob) ==
    CASE high_nibble = 0  -> handle_0xxx(e, instr)
      [] high_nibble = 1  -> handle_jp(e, instr)
      [] high_nibble = 2  -> handle_call(e, instr)
      [] high_nibble = 3  -> handle_se_vx_kk(e, instr)
      [] high_nibble = 4  -> handle_sne_vx_kk(e, instr)
      [] high_nibble = 5  -> handle_se_vx_vy(e, instr)
      [] high_nibble = 6  -> handle_ld_vx_kk(e, instr)
      [] high_nibble = 7  -> handle_add_vx_kk(e, instr)
      [] high_nibble = 8  -> handle_8xxx(e, instr)
      [] high_nibble = 9  -> handle_sne_vx_vy(e, instr)
      [] high_nibble = 10 -> handle_ld_i_nnn(e, instr)
      [] high_nibble = 11 -> handle_jp_v0_nnn(e, instr)
      [] high_nibble = 12 -> handle_rnd_vx_kk(e, instr, rnd)
      [] high_nibble = 13 -> handle_drw_vx_vy_n(e, instr)
      [] high_nibble = 14 -> handle_exxx(e, instr, oob)
      [] high_nibble = 15 -> handle_fxxx(e, instr)

-----------------------------------------------------------------------------
(* chip8.c: lifecycle and the CPU cycle                                     *)

\* Variant of the initialisation: pc is left at 0
M_chip8_init_pc_zero ==
    [ last_timer_ticks |-> 0,
      state            |-> "RUNNING",
      stack            |-> [d \in 0..(STACK_DEPTH - 1) |-> 0],
      I                |-> 0,
      pc               |-> 0,
      sp               |-> 0,
      delay_timer      |-> 0,
      sound_timer      |-> 0,
      V                |-> [r \in 0..15 |-> 0],
      keys             |-> [k \in 0..15 |-> FALSE],
      display          |-> [idx \in 0..(DISPLAY_WIDTH * DISPLAY_HEIGHT - 1) |-> 0],
      memory           |-> [a \in 0..(CHIP8_MEMORY_SIZE - 1) |->
                               IF a < Len(chip8_fontset) THEN chip8_fontset[a + 1] ELSE 0],
      current_instr    |-> decode_opcode(0) ]

chip8_init ==
    [ last_timer_ticks |-> 0,
      state            |-> "RUNNING",
      stack            |-> [d \in 0..(STACK_DEPTH - 1) |-> 0],
      I                |-> 0,
      pc               |-> CHIP8_ROM_ENTRY_POINT,
      sp               |-> 0,
      delay_timer      |-> 0,
      sound_timer      |-> 0,
      V                |-> [r \in 0..15 |-> 0],
      keys             |-> [k \in 0..15 |-> FALSE],
      display          |-> [idx \in 0..(DISPLAY_WIDTH * DISPLAY_HEIGHT - 1) |-> 0],
      memory           |-> [a \in 0..(CHIP8_MEMORY_SIZE - 1) |->
                               IF a < Len(chip8_fontset) THEN chip8_fontset[a + 1] ELSE 0],
      current_instr    |-> decode_opcode(0) ]

\* Variant of fread: the bytes go to memory from address 0 on
M_fread_rom_from_zero(mem, file, count) ==
    [a \in 0..(count - 1) |-> file[a + 1]] @@ mem

\* fread(&memory[0x200], 1, count, fp): the first count bytes of file go to
\* memory[0x200 .. 0x200 + count), every other cell keeps its value
fread_rom(mem, file, count) ==
    [a \in CHIP8_ROM_ENTRY_POINT..(CHIP8_ROM_ENTRY_POINT + count - 1)
        |-> file[a - CHIP8_ROM_ENTRY_POINT + 1]] @@ mem

\* Variant of the load: a file one byte too long passes the size test
M_chip8_load_program_off_by_one(e, file) ==
    LET file_size == Len(file)
        max_rom_size == CHIP8_MEMORY_SIZE - CHIP8_ROM_ENTRY_POINT
    IN  IF file_size > max_rom_size + 1
        THEN [ok |-> FALSE, emu |-> e]
        ELSE [ok |-> TRUE,
              emu |-> [e EXCEPT !.memory = fread_rom(e.memory, file, file_size)]]

\* file: the bytes of the ROM file, which exists and is read in full.
\* Yields whether the load succeeded and the machine after it.
chip8_load_program(e, file) ==
    LET file_size == Len(file)
        max_rom_size == CHIP8_MEMORY_SIZE - CHIP8_ROM_ENTRY_POINT
    IN  IF file_size > max_rom_size
        THEN [ok |-> FALSE, emu |-> e]
        ELSE [ok |-> TRUE,
              emu |-> [e EXCEPT !.memory = fread_rom(e.memory, file, file_size)]]

\* The 16-bit word at pc, big-endian
fetch_opcode(e) == e.memory[e.pc] * 256 + e.memory[e.pc + 1]

\* Variant of the cycle: the refused fetch still advances pc
M_chip8_cycle_refusal_advances(e, rnd, oob) ==
    IF e.pc + 1 >= CHIP8_MEMORY_SIZE
    THEN [e EXCEPT !.state = "STOPPED", !.pc = U16(e.pc + 2)]
    ELSE LET raw_opcode == fetch_opcode(e)
             e1 == [e EXCEPT !.current_instr = decode_opcode(raw_opcode)]
             high_nibble == e1.current_instr.opcode \div 4096
         IN  opcode_table(high_nibble, e1, e1.current_instr, rnd, oob)

chip8_cycle(e, rnd, oob) ==
    IF e.pc + 1 >= CHIP8_MEMORY_SIZE
    THEN [e EXCEPT !.state = "STOPPED"]
    ELSE LET raw_opcode == fetch_opcode(e)
             e1 == [e EXCEPT !.current_instr = decode_opcode(raw_opcode)]
             high_nibble == e1.current_instr.opcode \div 4096
         IN  opcode_table(high_nibble, e1, e1.current_instr, rnd, oob)

\* The rows DRW reads: the loop leaves at the first row past the end of
\* memory
drw_rows_read(e, height) ==
    { r \in 0..(height - 1) : \A q \in 0..r : e.I + q < CHIP8_MEMORY_SIZE }

\* The array indices one chip8_cycle on e uses, written as the index
\* expressions of the source under the tests that guard them.
\* memory: the fetch, the sprite rows of DRW, FX33, FX55 and FX65
M_memory_indices_bcd_unguarded(e) ==
    IF e.pc + 1 >= CHIP8_MEMORY_SIZE THEN {}
    ELSE LET instr == decode_opcode(fetch_opcode(e))
             hi == instr.opcode \div 4096
         IN  {e.pc, e.pc + 1} \cup
             (CASE hi = 13 ->
                     { e.I + row : row \in drw_rows_read(e, instr.n) }
                [] hi = 15 /\ instr.kk = 51 ->
                     { e.I + 0, e.I + 1, e.I + 2 }
                [] hi = 15 /\ instr.kk \in {85, 101} ->
                     { e.I + i2 : i2 \in { i \in 0..instr.x :
                           e.I + i < CHIP8_MEMORY_SIZE } }
                [] OTHER -> {})

memory_indices(e) ==
    IF e.pc + 1 >= CHIP8_MEMORY_SIZE THEN {}
    ELSE LET instr == decode_opcode(fetch_opcode(e))
             hi == instr.opcode \div 4096
         IN  {e.pc, e.pc + 1} \cup
             (CASE hi = 13 ->
                     { e.I + row : row \in drw_rows_read(e, instr.n) }
                [] hi = 15 /\ instr.kk = 51 ->
                     IF e.I + 2 < CHIP8_MEMORY_SIZE
                     THEN { e.I + 0, e.I + 1, e.I + 2 } ELSE {}
                [] hi = 15 /\ instr.kk \in {85, 101} ->
                     { e.I + i2 : i2 \in { i \in 0..instr.x :
                           e.I + i < CHIP8_MEMORY_SIZE } }
                [] OTHER -> {})

\* display: every cell for CLS; for DRW screen_idx = dst_y * 64 + dst_x of
\* the pixels that pass the test on dst_x and dst_y, in the rows read
display_indices(e) ==
    IF e.pc + 1 >= CHIP8_MEMORY_SIZE THEN {}
    ELSE LET instr == decode_opcode(fetch_opcode(e))
             hi == instr.opcode \div 4096
             x == e.V[instr.x] % 64
             y == e.V[instr.y] % 32
         IN  CASE instr.opcode = 224 -> 0..(DISPLAY_WIDTH * DISPLAY_HEIGHT - 1)
               [] hi = 13 ->
                    { (y + p[1]) * 64 + (x + p[2]) :
                        p \in { q \in drw_rows_read(e, instr.n) \X (0..7) :
                                  ~(x + q[2] >= 64 \/ y + q[1] >= 32) } }
               [] OTHER -> {}

\* stack: stack[sp] of CALL under sp < 16, stack[sp - 1] of RET under sp > 0
stack_indices(e) ==
    IF e.pc + 1 >= CHIP8_MEMORY_SIZE THEN {}
    ELSE LET instr == decode_opcode(fetch_opcode(e))
             hi == instr.opcode \div 4096
         IN  CASE hi = 2 -> IF e.sp < 16 THEN {e.sp} ELSE {}
               [] instr.opcode = 238 -> IF e.sp > 0 THEN {e.sp - 1} ELSE {}
               [] OTHER -> {}

-----------------------------------------------------------------------------
(* audio.c: the beep.  a = [gBeepChunk: the WAV is loaded,                  *)
(* gBeepChannel: the channel playing or -1, playing: the mixer plays it,    *)
(* mix_play_called: Mix_PlayChannel has been called]                        *)

audio_none == [gBeepChunk |-> FALSE, gBeepChannel |-> -1, playing |-> FALSE,
               mix_play_called |-> FALSE]

audio_init(a) == [a EXCEPT !.gBeepChunk = TRUE]

\* SDL_mixer: playing a loaded chunk yields a channel, playing none fails
Mix_PlayChannel(a) == IF a.gBeepChunk THEN 1 ELSE -1

audio_play_beep_loop(a) ==
    IF a.gBeepChannel >= 0 /\ a.playing
    THEN a
    ELSE LET ch == Mix_PlayChannel(a)
         IN  [a EXCEPT !.gBeepChannel = ch, !.playing = (ch >= 0),
                       !.mix_play_called = TRUE]

audio_stop_beep(a) ==
    IF a.gBeepChannel >= 0
    THEN [a EXCEPT !.gBeepChannel = -1, !.playing = FALSE]
    ELSE a

audio_is_beep_playing(a) ==
    IF a.gBeepChannel >= 0 THEN a.playing ELSE FALSE

-----------------------------------------------------------------------------
(* chip8.c: the timers.  m = [emu, audio]                                   *)

\* Variant of the decrement: the delay timer is lowered without the test
M_chip8_timers_decrement_wraps(m) ==
    LET e1 == [m.emu EXCEPT !.delay_timer = U8(m.emu.delay_timer + 255)]
    IN  IF e1.sound_timer > 0
        THEN LET a1 == IF ~audio_is_beep_playing(m.audio)
                       THEN audio_play_beep_loop(m.audio)
                       ELSE m.audio
                 e2 == [e1 EXCEPT !.sound_timer = e1.sound_timer - 1]
                 a2 == IF e2.sound_timer = 0 THEN audio_stop_beep(a1) ELSE a1
             IN  [emu |-> e2, audio |-> a2]
        ELSE [emu |-> e1, audio |-> m.audio]

chip8_timers_decrement(m) ==
    LET e1 == IF m.emu.delay_timer > 0
              THEN [m.emu EXCEPT !.delay_timer = m.emu.delay_timer - 1]
              ELSE m.emu
    IN  IF e1.sound_timer > 0
        THEN LET a1 == IF ~audio_is_beep_playing(m.audio)
                       THEN audio_play_beep_loop(m.audio)
                       ELSE m.audio
                 e2 == [e1 EXCEPT !.sound_timer = e1.sound_timer - 1]
                 a2 == IF e2.sound_timer = 0 THEN audio_stop_beep(a1) ELSE a1
             IN  [emu |-> e2, audio |-> a2]
        ELSE [emu |-> e1, audio |-> m.audio]

\* The while loop of the tick.  elapsed and interval are doubles in the
\* source, elapsed = ticks / freq and interval = 1/60; both are kept here
\* multiplied by 60 * freq, so that elapsed60 counts 60ths of a counter tick
\* and the interval is PerfFrequency of them.  lastCount advances by the
\* truncated (uint64_t)(interval * freq).
RECURSIVE tick_loop(_, _, _)
tick_loop(m, elapsed60, lc) ==
    IF elapsed60 >= PerfFrequency
    THEN tick_loop(chip8_timers_decrement(m), elapsed60 - PerfFrequency,
                   lc + (PerfFrequency \div 60))
    ELSE [emu |-> m.emu, audio |-> m.audio, lastCount |-> lc]

chip8_timers_tick_60hz(m, lc, now) ==
    LET lc0 == IF lc = 0 THEN now ELSE lc
    IN  tick_loop(m, 60 * (now - lc0), lc0)

-----------------------------------------------------------------------------
(* sdl_interface.c: events.  ev = [type, sym]                               *)

\* The CHIP-8 key of each mapped key symbol
keymap ==
    [sym \in {"1", "2", "3", "4", "q", "w", "e", "r",
              "a", "s", "d", "f", "z", "x", "c", "v"} |->
        CASE sym = "1" -> 1  [] sym = "2" -> 2  [] sym = "3" -> 3  [] sym = "4" -> 12
          [] sym = "q" -> 4  [] sym = "w" -> 5  [] sym = "e" -> 6  [] sym = "r" -> 13
          [] sym = "a" -> 7  [] sym = "s" -> 8  [] sym = "d" -> 9  [] sym = "f" -> 14
          [] sym = "z" -> 10 [] sym = "x" -> 0  [] sym = "c" -> 11 [] sym = "v" -> 15]

\* Variant of the event handler: a mapped key going down resumes the machine
M_sdl_handle_event_key_resumes(e, ev, confirm) ==
    CASE ev.type = "QUIT" -> [e EXCEPT !.state = "STOPPED"]
      [] ev.type = "KEYDOWN" ->
            IF ev.sym \in DOMAIN keymap
            THEN [e EXCEPT !.keys[keymap[ev.sym]] = TRUE, !.state = "RUNNING"]
            ELSE IF ev.sym = "ESCAPE"
                 THEN IF confirm THEN [e EXCEPT !.state = "STOPPED"] ELSE e
                 ELSE e
      [] OTHER -> e

\* confirm: the answer of the quit dialog (confirm_quit).  The KEYUP label
\* of the source sits inside the key-symbol switch of KEYDOWN, where no key
\* symbol equals it: an event of type KEYUP matches no case of the outer
\* switch.
sdl_handle_event(e, ev, confirm) ==
    CASE ev.type = "QUIT" -> [e EXCEPT !.state = "STOPPED"]
      [] ev.type = "KEYDOWN" ->
            IF ev.sym \in DOMAIN keymap
            THEN [e EXCEPT !.keys[keymap[ev.sym]] = TRUE]
            ELSE IF ev.sym = "ESCAPE"
                 THEN IF confirm THEN [e EXCEPT !.state = "STOPPED"] ELSE e
                 ELSE e
      [] OTHER -> e

-----------------------------------------------------------------------------
(* ROM images.  A program is a sequence of 16-bit words, stored big-endian. *)

Bytes(words) ==
    [i \in 1..(2 * Len(words)) |->
        IF i % 2 = 1 THEN words[(i + 1) \div 2] \div 256
                     ELSE words[i \div 2] % 256]

OpNNN(hi, nnn)     == hi * 4096 + nnn
OpXKK(hi, x, kk)   == hi * 4096 + x * 256 + kk
OpXYN(hi, x, y, n) == hi * 4096 + x * 256 + y * 16 + n

\* The address of word number k (from 0) of a loaded program
At(k) == CHIP8_ROM_ENTRY_POINT + 2 * k

\* JP to itself: the usual way a program halts
Halt(k) == OpNNN(1, At(k))

SampleBytes == {0, 1, 5, 10, 127, 128, 255}

\* Register pairs (x, y) of the two-register instructions
RegPairs == {<<0, 1>>, <<7, 2>>, <<3, 3>>, <<0, 15>>, <<15, 0>>, <<15, 15>>}

\* 6Xaa; 6Ybb; 8XYn; halt
AluProg(x, y, n, a, b) ==
    << OpXKK(6, x, a), OpXKK(6, y, b), OpXYN(8, x, y, n), Halt(3) >>

AluRoms ==
    { Bytes(AluProg(p[1], p[2], n, a, b)) :
        p \in RegPairs, n \in {4, 5, 7}, a \in SampleBytes, b \in SampleBytes }

\* 17 CALLs in a row, each to the next word: the 17th finds the stack full
CallChain == [k \in 1..(STACK_DEPTH + 1) |-> OpNNN(2, At(k))]

\* CALL and RET
CallRoms ==
    { Bytes(<< \h2204, \h1202, \h00EE >>),                    \* call, halt; ret
      Bytes(<< \h2206, \h1202, \h00E0, \h220A, \h00EE, \h00EE >>),  \* nested
      Bytes(<< \h2200 >>),                                    \* endless recursion
      Bytes(CallChain),
      Bytes(<< \h00EE, \h1202 >>) }                           \* ret on an empty stack

\* The program counter at the end of memory
PcEdgeRoms ==
    { Bytes(<< \h1FFE >>),
      Bytes(<< \h1FFF >>),
      Bytes(<< \h6040, \h6100, \hAFFE, \hF155, \h1FFE >>),    \* SNE at 0xFFE, taken
      Bytes(<< \h60FF, \hBFFF >>) }

\* One of every kind of instruction, the unknown ones included
TourRoms ==
    { Bytes(<< \h00E0, \h6005, \h7003, \h3008, \h0000, \h4008, \h6101, \h5010,
               \h9010, \h0123, \h8010, \h60F3, \h8011, \h8012, \h8013, \h8016,
               \h801E, \h8018, \h5011, \hA005, \hC103, \hD015, \hE09E, \hE0A1,
               \hE000, \hF007, \hF015, \hF018, \hF01E, \hF029, \hF033, \hF155,
               \hF165, \hF0FF, \h0123, \h1246 >>),
      Bytes(<< \h6020, \hE09E, \hE0A1, \h7001, \h70FF, \h120A >>) }

\* Sprite sources (I, n) and positions (V0, V1) of the drawing programs
SpriteSources == {<<0, 5>>, <<0, 15>>, <<At(7), 1>>, <<4094, 4>>}
SpritePositions == {<<0, 0>>, <<12, 8>>, <<60, 30>>, <<126, 63>>, <<63, 0>>}

\* LD I; LD V0; LD V1; the same DRW three times; halt; a row of 8 set bits
DrawProg(i, n, vx, vy) ==
    << OpNNN(10, i), OpXKK(6, 0, vx), OpXKK(6, 1, vy),
       OpXYN(13, 0, 1, n), OpXYN(13, 0, 1, n), OpXYN(13, 0, 1, n),
       Halt(6), \hFF00 >>

DrawRoms ==
    { Bytes(DrawProg(s[1], s[2], p[1], p[2])) : s \in SpriteSources, p \in SpritePositions }
    \cup
    { \* two glyphs that overlap in part, then the first again elsewhere
      Bytes(<< \hA000, \h6000, \h6100, \hD015, \hA005, \h6002, \h6101, \hD015,
               \hA000, \h6028, \hD015, \h1216 >>),
      \* a glyph with a hole, then two rows of 2 set bits inside the hole
      Bytes(<< \hA000, \h6000, \h6100, \hD015, \hA210, \h6101, \hD012, \h120E,
               \h6060 >>),
      \* CLS, then a row of 8 set bits at (0,0)
      Bytes(<< \h00E0, \hA20C, \h6000, \h6100, \hD011, \h120A, \hFF00 >>),
      \* VF as the coordinate register
      Bytes(<< \hA000, \h6F3E, \hDFF5, \hDFF5, \h1208 >>),
      \* a sprite in the last two bytes of memory, drawn with n = 4
      Bytes(<< \h60FF, \h6181, \hAFFE, \hF155, \h6205, \hD224, \hD224, \h120E >>) }

\* ROM files of a given length: a jump to itself, then filler bytes 1..255
RomOfLength(len) ==
    [i \in 1..len |-> IF i = 1 THEN 18 ELSE IF i = 2 THEN 0 ELSE 1 + (i % 255)]

\* The longest ROM that fits, and one byte more
LoadRoms ==
    { RomOfLength(CHIP8_MEMORY_SIZE - CHIP8_ROM_ENTRY_POINT),
      RomOfLength(CHIP8_MEMORY_SIZE - CHIP8_ROM_ENTRY_POINT + 1) }

\* CLS; LD I, 0x22A; LD V0, 12; LD V1, 8; DRW V0, V1, 15 and nothing after
S1Rom == Bytes(<< \h00E0, \hA22A, \h600C, \h6108, \hD01F >>)

ScenarioRoms == { S1Rom }

\* Programs about the index register: FX29 of a value above 15; FX1E from
\* 0xFFF onwards in steps of 128 with VF = 1; FX33 at the end of memory
IndexRoms ==
    { Bytes(<< \h6010, \hF029, \h60FF, \hF029, \h1208 >>),
      Bytes(<< \h6F01, \hAFFF, \h6080, \hF01E, \h1206 >>),
      Bytes(<< \h60FE, \hAFFD, \hF033, \hAFFE, \hF033, \hAFFF, \hF033,
               \h6107, \hF11E, \hF033, \h1214 >>) }

\* 7XKK with VF = 1: a sum past 255, then VF itself as the target
AddRoms ==
    { Bytes(<< \h6F01, \h60FF, \h7002, \h7F01, \h7FFF, \h120A >>) }

\* Words outside the instruction set: 5XY1 with V0 = V1, 9XY1 with V0 # V1,
\* then 8XY8, EX00 and FXFF with every register and I set
UnknownRoms ==
    { Bytes(<< \h5011, \h1202, \h6001, \h9011, \h1208, \h6F07, \hA123,
               \h8018, \hE000, \hF0FF, \h1214 >>) }

\* V0..V3 and VF set, FX55 at I = 0x300, every register overwritten, then
\* FX65 with the same x and I
RoundTripProg(x) ==
    << \h6011, \h6122, \h6233, \h6344, \h6F55, \hA300, OpXKK(15, x, 85),
       \h60FF, \h61FE, \h62FD, \h63FC, \h8014, OpXKK(15, x, 101), Halt(13) >>

RoundTripX == {0, 2, 15}

\* FX55 and FX65 across the end of memory (I = 0xFFE, x = 3), with I past
\* it (I = 0x1004), and the round trips
StoreRoms ==
    { Bytes(<< \h6011, \h6122, \h6233, \h6344, \hAFFE, \hF355,
               \h6000, \h6100, \h6200, \h6300, \hF365, \h1216 >>),
      Bytes(<< \h6005, \hAFFF, \hF01E, \h60AB, \hF055, \hF065, \h120C >>) }
    \cup { Bytes(RoundTripProg(x)) : x \in RoundTripX }

\* DRW of 4 rows from I = 0xFFE, where memory ends after 2 rows (FF and 81
\* are stored there first), and DRW with I past the end of memory
EdgeDrawRoms ==
    { Bytes(<< \h60FF, \hAFFE, \hF055, \h6081, \hAFFF, \hF055, \hAFFE,
               \h6002, \h6103, \hD014, \h1214 >>),
      Bytes(<< \h6005, \hAFFF, \hF01E, \h6000, \hD005, \h120A >>) }

\* Each of 3XKK, 4XKK, 5XY0 and 9XY0 once with its condition true and
\* once with it false, with V0 = 5, V1 = 5, V2 = 0
SkipRoms ==
    { Bytes(<< \h6005, \h3005, \h0000, \h3006, \h4005, \h4006, \h0000,
               \h6105, \h5010, \h0000, \h5020, \h9010, \h9020, \h0000,
               Halt(14) >>) }

\* Programs that stop the machine by themselves, run under host events
StopRoms ==
    { Bytes(<< \h2200 >>),                                    \* stack overflow
      Bytes(<< \h1FFF >>) }                                   \* pc beyond memory

\* Run with audio disabled in the configuration: sound_timer = 3, then a
\* jump to itself
SilentRoms ==
    { Bytes(<< \h6003, \hF018, \h1204 >> ) }

HostRoms ==
    { Bytes(<< \hF00A, \h1202 >>),                            \* wait for a key
      Bytes(<< \h6109, \h6F01, \hF30A, \h1206 >>),            \* the same, into V3
      Bytes(<< \h6002, \hF015, \hF018, \hF107, \h1206 >>),    \* both timers, read DT
      Bytes(<< \h603C, \hF015, \h1204 >>) }                  \* delay timer = 60

Runs ==
    { [rom |-> r, audio_enabled |-> TRUE, events |-> 0, clock_end |-> 1] :
        r \in AluRoms \cup CallRoms \cup PcEdgeRoms \cup TourRoms \cup DrawRoms
                \cup LoadRoms \cup ScenarioRoms \cup IndexRoms \cup AddRoms
                \cup UnknownRoms \cup StoreRoms \cup EdgeDrawRoms
                \cup SkipRoms }
    \cup
    { [rom |-> r, audio_enabled |-> TRUE, events |-> MaxEvents,
       clock_end |-> 1 + MaxClock * ClockStep] : r \in HostRoms }
    \cup
    { [rom |-> r, audio_enabled |-> TRUE, events |-> MaxEvents,
       clock_end |-> 1 + ClockStep] : r \in StopRoms }
    \cup
    { [rom |-> r, audio_enabled |-> FALSE, events |-> 0,
       clock_end |-> 1 + MaxClock * ClockStep] : r \in SilentRoms }

\* The events the host delivers
Events ==
    { [type |-> "QUIT", sym |-> "NONE"],
      [type |-> "KEYDOWN", sym |-> "a"],
      [type |-> "KEYDOWN", sym |-> "x"],
      [type |-> "KEYDOWN", sym |-> "ESCAPE"],
      [type |-> "KEYUP", sym |-> "a"],
      [type |-> "MOUSEMOTION", sym |-> "NONE"] }

-----------------------------------------------------------------------------
(* main.c                                                                   *)

Init ==
    /\ run \in Runs
    /\ emu = chip8_init
    /\ audio = audio_none
    /\ phase = "start"
    /\ running = TRUE
    /\ lastCount = 0
    /\ clock = 1
    /\ nevents = 0
    /\ last = [pc |-> -1, op |-> -1, stopped |-> FALSE, nevents |-> 0, clock |-> 0,
               first |-> -1]
    /\ callsite = [d \in 0..(STACK_DEPTH - 1) |-> -1]
    /\ held = {}
    /\ other = "none"

\* main(), from the load of the ROM to the entry of the main loop
Startup ==
    /\ phase = "start"
    /\ LET ld == chip8_load_program(emu, run.rom)
       IN  /\ emu' = ld.emu
           /\ phase' = IF ld.ok THEN "loop" ELSE "exit"
           /\ audio' = IF ld.ok /\ run.audio_enabled THEN audio_init(audio) ELSE audio
    /\ UNCHANGED <<held, other, run, running, lastCount, clock, nevents, last, callsite>>

\* One event polled by the main loop's event loop
HandleEvent ==
    /\ phase = "loop"
    /\ nevents < run.events
    /\ \E ev \in Events, confirm \in BOOLEAN :
          /\ (confirm => ev.sym = "ESCAPE")
          /\ emu' = sdl_handle_event(emu, ev, confirm)
          /\ held' = IF ev.sym \in DOMAIN keymap
                     THEN IF ev.type = "KEYDOWN" THEN held \cup {keymap[ev.sym]}
                          ELSE IF ev.type = "KEYUP" THEN held \ {keymap[ev.sym]}
                          ELSE held
                     ELSE held
    /\ running' = IF emu'.state = "STOPPED" THEN FALSE ELSE running
    /\ nevents' = nevents + 1
    /\ UNCHANGED <<other, audio, run, phase, lastCount, clock, last, callsite>>

\* rand() & 0xFF, where the instruction at pc draws it
RndChoices(e) ==
    IF e.pc + 1 < CHIP8_MEMORY_SIZE /\ fetch_opcode(e) \div 4096 = 12 THEN Byte ELSE {0}

\* The value of an out-of-bounds read of keys, where the instruction makes one
OobChoices(e) ==
    IF /\ e.pc + 1 < CHIP8_MEMORY_SIZE
       /\ fetch_opcode(e) \div 4096 = 14
       /\ e.V[(fetch_opcode(e) \div 256) % 16] >= 16
    THEN BOOLEAN ELSE {FALSE}

\* Variant of the loop body: the timers are ticked only if the cycle moved pc
M_RunFrame_blocked_no_tick ==
    /\ phase = "loop"
    /\ running
    /\ emu.state = "RUNNING"
    /\ \E rnd \in RndChoices(emu), oob \in OobChoices(emu) :
          LET e1 == chip8_cycle(emu, rnd, oob)
              t  == IF e1.pc = emu.pc
                    THEN [emu |-> e1, audio |-> audio,
                          lastCount |-> IF lastCount = 0 THEN clock ELSE lastCount]
                    ELSE chip8_timers_tick_60hz([emu |-> e1, audio |-> audio],
                                                lastCount, clock)
          IN  /\ emu' = t.emu
              /\ audio' = t.audio
              /\ lastCount' = t.lastCount
              /\ last' = [pc      |-> emu.pc,
                          op      |-> IF emu.pc + 1 < CHIP8_MEMORY_SIZE
                                      THEN fetch_opcode(emu) ELSE -1,
                          stopped |-> e1.state = "STOPPED",
                          nevents |-> nevents,
                          clock   |-> clock,
                          first   |-> IF last.first = -1 THEN clock ELSE last.first]
    /\ callsite' = IF /\ emu.pc + 1 < CHIP8_MEMORY_SIZE
                      /\ fetch_opcode(emu) \div 4096 = 2
                      /\ emu.sp < STACK_DEPTH
                   THEN [callsite EXCEPT ![emu.sp] = emu.pc]
                   ELSE callsite
    /\ UNCHANGED <<held, other, run, phase, running, clock, nevents>>

\* Variant of the loop body: the cycle and the timers run whatever the state
M_RunFrame_ignores_state ==
    /\ phase = "loop"
    /\ \E rnd \in RndChoices(emu), oob \in OobChoices(emu) :
          LET e1 == chip8_cycle(emu, rnd, oob)
              t  == chip8_timers_tick_60hz([emu |-> e1, audio |-> audio], lastCount, clock)
          IN  /\ emu' = t.emu
              /\ audio' = t.audio
              /\ lastCount' = t.lastCount
              /\ last' = [pc      |-> emu.pc,
                          op      |-> IF emu.pc + 1 < CHIP8_MEMORY_SIZE
                                      THEN fetch_opcode(emu) ELSE -1,
                          stopped |-> e1.state = "STOPPED",
                          nevents |-> nevents,
                          clock   |-> clock,
                          first   |-> IF last.first = -1 THEN clock ELSE last.first]
    /\ callsite' = IF /\ emu.pc + 1 < CHIP8_MEMORY_SIZE
                      /\ fetch_opcode(emu) \div 4096 = 2
                      /\ emu.sp < STACK_DEPTH
                   THEN [callsite EXCEPT ![emu.sp] = emu.pc]
                   ELSE callsite
    /\ UNCHANGED <<held, other, run, phase, running, clock, nevents>>

\* The body of `if (emu.state == CHIP8_RUNNING)`: one cycle, then the timers
RunFrame ==
    /\ phase = "loop"
    /\ running
    /\ emu.state = "RUNNING"
    /\ \E rnd \in RndChoices(emu), oob \in OobChoices(emu) :
          LET e1 == chip8_cycle(emu, rnd, oob)
              t  == chip8_timers_tick_60hz([emu |-> e1, audio |-> audio], lastCount, clock)
          IN  /\ emu' = t.emu
              /\ audio' = t.audio
              /\ lastCount' = t.lastCount
              /\ last' = [pc      |-> emu.pc,
                          op      |-> IF emu.pc + 1 < CHIP8_MEMORY_SIZE
                                      THEN fetch_opcode(emu) ELSE -1,
                          stopped |-> e1.state = "STOPPED",
                          nevents |-> nevents,
                          clock   |-> clock,
                          first   |-> IF last.first = -1 THEN clock ELSE last.first]
    /\ callsite' = IF /\ emu.pc + 1 < CHIP8_MEMORY_SIZE
                      /\ fetch_opcode(emu) \div 4096 = 2
                      /\ emu.sp < STACK_DEPTH
                   THEN [callsite EXCEPT ![emu.sp] = emu.pc]
                   ELSE callsite
    /\ UNCHANGED <<held, other, run, phase, running, clock, nevents>>

\* Time passes
AdvanceClock ==
    /\ phase = "loop"
    /\ clock < run.clock_end
    /\ clock' = clock + ClockStep
    /\ UNCHANGED <<held, other, emu, audio, run, phase, running, lastCount, nevents, last, callsite>>

\* `while (running)` ends; cleanup
Exit ==
    /\ phase = "loop"
    /\ ~running
    /\ phase' = "exit"
    /\ UNCHANGED <<held, other, emu, audio, run, running, lastCount, clock, nevents, last, callsite>>

Next == Startup \/ HandleEvent \/ RunFrame \/ AdvanceClock \/ Exit

Spec == Init /\ [][Next]_vars

-----------------------------------------------------------------------------
(* The host loop as it is scheduled: while (running) never pauses for     *)
(* longer than SDL_Delay(1), so an iteration that can run does run, the     *)
(* counter goes on counting and a loop whose condition is false is left.    *)
(* Events arrive or not as the user pleases.  The runs are those of a       *)
(* program that waits for a key with the delay timer set, and of the        *)
(* programs that stop the machine.                                          *)

\* delay_timer = 1, then FX0A
WaitTimerRom == Bytes(<< \h6001, \hF015, \hF00A, \h1206 >>)

\* At most one event arrives in these runs
FairRuns ==
    { [rom |-> WaitTimerRom, audio_enabled |-> TRUE, events |-> 1,
       clock_end |-> 1 + FairClock * ClockStep] }
    \cup
    { [rom |-> r, audio_enabled |-> TRUE, events |-> 1,
       clock_end |-> 1 + ClockStep] : r \in StopRoms }

InitFair ==
    /\ run \in FairRuns
    /\ emu = chip8_init
    /\ audio = audio_none
    /\ phase = "start"
    /\ running = TRUE
    /\ lastCount = 0
    /\ clock = 1
    /\ nevents = 0
    /\ last = [pc |-> -1, op |-> -1, stopped |-> FALSE, nevents |-> 0, clock |-> 0,
               first |-> -1]
    /\ callsite = [d \in 0..(STACK_DEPTH - 1) |-> -1]
    /\ held = {}
    /\ other = "none"

SpecFair ==
    /\ InitFair
    /\ [][Next]_vars
    /\ WF_vars(Startup)
    /\ WF_vars(RunFrame)
    /\ WF_vars(AdvanceClock)
    /\ WF_vars(Exit)

-----------------------------------------------------------------------------
(* Two machine instances in one process, each with its delay timer set and  *)
(* its timers ticked through chip8_timers_tick_60hz, whose lastCount is a   *)
(* static of the function and so the same object for both.                  *)

TimerValues == {0, 2, 60}

InitTwo ==
    /\ run = [rom |-> << >>, audio_enabled |-> FALSE, events |-> 0,
              clock_end |-> 1 + 3 * MaxClock * ClockStep]
    /\ \E d \in TimerValues : emu = [chip8_init EXCEPT !.delay_timer = d]
    /\ \E d \in TimerValues : other = [chip8_init EXCEPT !.delay_timer = d]
    /\ audio = audio_none
    /\ phase = "loop"
    /\ running = TRUE
    /\ lastCount = 0
    /\ clock = 1
    /\ nevents = 0
    /\ last = [pc |-> -1, op |-> -1, stopped |-> FALSE, nevents |-> 0, clock |-> 0,
               first |-> -1]
    /\ callsite = [d \in 0..(STACK_DEPTH - 1) |-> -1]
    /\ held = {}

\* chip8_timers_tick_60hz(&emu)
TickFirst ==
    /\ LET t == chip8_timers_tick_60hz([emu |-> emu, audio |-> audio], lastCount, clock)
       IN  /\ emu' = t.emu
           /\ audio' = t.audio
           /\ lastCount' = t.lastCount
    /\ UNCHANGED <<held, other, run, phase, running, clock, nevents, last, callsite>>

\* chip8_timers_tick_60hz(&other)
TickOther ==
    /\ LET t == chip8_timers_tick_60hz([emu |-> other, audio |-> audio], lastCount, clock)
       IN  /\ other' = t.emu
           /\ audio' = t.audio
           /\ lastCount' = t.lastCount
    /\ UNCHANGED <<held, emu, run, phase, running, clock, nevents, last, callsite>>

NextTwo == TickFirst \/ TickOther \/ AdvanceClock

SpecTwo == InitTwo /\ [][NextTwo]_vars

-----------------------------------------------------------------------------
(* Properties                                                               *)

\* The machine is about to execute the instruction at pc
Executes ==
    /\ phase = "loop"
    /\ running
    /\ emu.state = "RUNNING"
    /\ emu.pc + 1 < CHIP8_MEMORY_SIZE

\* A step of the main loop that runs one cycle: no event, no passing of time
CycleStep ==
    /\ Executes
    /\ phase' = "loop"
    /\ nevents' = nevents
    /\ clock' = clock

\* The instruction a cycle step executes
Op == fetch_opcode(emu)
OpHi == Op \div 4096
OpX == (Op \div 256) % 16
OpY == (Op \div 16) % 16
OpN == Op % 16
OpKK == Op % 256

\* C1: a RET executed at the stack depth its subroutine was entered with
\* leaves pc at the instruction following the CALL (call address + 2) and
\* sp at its value before the CALL.
C1_RetReturnsPastCall ==
    [][ (CycleStep /\ Op = 238 /\ emu.sp > 0)
          => /\ emu'.pc = callsite[emu.sp - 1] + 2
             /\ emu'.sp = emu.sp - 1 ]_vars

\* C2 as stated: in every reachable state pc < 4096 and 0 <= sp <= 16.
C2_PcBelowMemorySize ==
    /\ emu.pc < CHIP8_MEMORY_SIZE
    /\ emu.sp \in 0..STACK_DEPTH

\* C2 as amended: in every reachable state pc <= 4098 and 0 <= sp <= 16.
\* The instruction at 4094 is fetched, and leaves pc at 4096, or at 4098
\* when it skips; the cycle after that stops the machine.
C2_PcSpBounds ==
    /\ emu.pc <= CHIP8_MEMORY_SIZE + 2
    /\ emu.sp \in 0..STACK_DEPTH

C2_Witness ==
    /\ emu.pc = CHIP8_MEMORY_SIZE + 2
    /\ last.pc = CHIP8_MEMORY_SIZE - 2

\* The instruction about to run gives pc a jump, call or return target
AssignsTarget ==
    \/ OpHi = 1
    \/ OpHi = 11
    \/ OpHi = 2 /\ emu.sp < STACK_DEPTH
    \/ Op = 238 /\ emu.sp > 0

NoKeyDown == \A k \in 0..15 : ~emu.keys[k]

\* C3 as stated: an instruction that gives pc no jump, call or return
\* target changes pc by 0, 2 or 4, and only FX0A with no key down leaves pc
\* unchanged.
C3_PcAdvance ==
    [][ (CycleStep /\ ~AssignsTarget)
          => /\ emu'.pc - emu.pc \in {0, 2, 4}
             /\ emu'.pc = emu.pc => (OpHi = 15 /\ OpKK = 10 /\ NoKeyDown) ]_vars

\* C3 as amended: ... and only FX0A with no key down and 2NNN with sp = 16
\* (which stops the machine) leave pc unchanged.
C3_PcAdvanceOrOverflow ==
    [][ (CycleStep /\ ~AssignsTarget)
          => /\ emu'.pc - emu.pc \in {0, 2, 4}
             /\ emu'.pc = emu.pc =>
                  \/ OpHi = 15 /\ OpKK = 10 /\ NoKeyDown
                  \/ OpHi = 2 /\ emu.sp = STACK_DEPTH /\ emu'.state = "STOPPED" ]_vars

C3_Witness ==
    /\ last.op \div 4096 = 2
    /\ emu.pc = last.pc
    /\ emu.sp = STACK_DEPTH
    /\ emu.state = "STOPPED"

\* The run's ROM is 6Xaa; 6Ybb; 8XYn; halt, with these x, a, y, b
AluX == run.rom[1] % 16
AluA == run.rom[2]
AluY == run.rom[3] % 16
AluB == run.rom[4]
IsAluRun(n) ==
    /\ Len(run.rom) = 8
    /\ run.rom = Bytes(AluProg(AluX, AluY, n, AluA, AluB))

\* C4: for bytes a, b and distinct registers x, y other than VF, after
\* 6Xaa; 6Ybb; 8XY4: V[x] = (a+b) mod 256, VF = 1 iff a+b > 255, V[y] = b
\* and pc has advanced by 6.
C4_AddCarry ==
    (/\ IsAluRun(4)
     /\ AluX # AluY /\ AluX # 15 /\ AluY # 15
     /\ last.pc = At(2))
      => /\ emu.V[AluX] = (AluA + AluB) % 256
         /\ emu.V[15] = (IF AluA + AluB > 255 THEN 1 ELSE 0)
         /\ emu.V[AluY] = AluB
         /\ emu.pc = CHIP8_ROM_ENTRY_POINT + 6

C4_Witness ==
    /\ IsAluRun(4)
    /\ AluX = 0 /\ AluY = 1 /\ AluA = 255 /\ AluB = 1
    /\ last.pc = At(2)
    /\ emu.V[0] = 0 /\ emu.V[15] = 1 /\ emu.pc = 518

\* C5: 8FY4 and 8FY5 leave VF holding the flag (8FY4: 1 iff old VF + old
\* V[y] > 255; 8FY5: 1 iff old VF >= old V[y]), not the low byte of the
\* sum or difference.
C5_FlagWrittenAfterStore ==
    [][ (CycleStep /\ OpHi = 8 /\ OpX = 15 /\ OpN \in {4, 5})
          => emu'.V[15] =
               (IF OpN = 4
                THEN (IF emu.V[15] + emu.V[OpY] > 255 THEN 1 ELSE 0)
                ELSE (IF emu.V[15] >= emu.V[OpY] THEN 1 ELSE 0)) ]_vars

\* C6: with x # F and any y, a = V[x], b = V[y] before the instruction:
\* 8XY5 leaves V[x] = (a - b) mod 256 and VF = 1 iff a >= b; 8XY7 leaves
\* V[x] = (b - a) mod 256 and VF = 1 iff b >= a.
C6_SubBorrow ==
    [][ (CycleStep /\ OpHi = 8 /\ OpX # 15 /\ OpN \in {5, 7})
          => LET a == emu.V[OpX]
                 b == emu.V[OpY]
             IN  IF OpN = 5
                 THEN /\ emu'.V[OpX] = (a - b) % 256
                      /\ emu'.V[15] = (IF a >= b THEN 1 ELSE 0)
                 ELSE /\ emu'.V[OpX] = (b - a) % 256
                      /\ emu'.V[15] = (IF b >= a THEN 1 ELSE 0) ]_vars

\* DXYN as the instruction about to run: its start position, and the sprite
\* bit it lays on screen cell (cx, cy): bit 7 - c of memory[I + r], where
\* c = cx - start_x and r = cy - start_y, for 0 <= c < 8, 0 <= r < n and
\* I + r inside memory; 0 for every other cell
DrwStep == CycleStep /\ OpHi = 13
DrwStartX == emu.V[OpX] % DISPLAY_WIDTH
DrwStartY == emu.V[OpY] % DISPLAY_HEIGHT
Cells == (0..(DISPLAY_WIDTH - 1)) \X (0..(DISPLAY_HEIGHT - 1))
CellIdx(cell) == cell[2] * DISPLAY_WIDTH + cell[1]
SpriteBit(cell) ==
    LET c == cell[1] - DrwStartX
        r == cell[2] - DrwStartY
    IN  IF /\ c \in 0..7
           /\ r \in 0..(OpN - 1)
           /\ emu.I + r < CHIP8_MEMORY_SIZE
        THEN (emu.memory[emu.I + r] \div (2 ^ (7 - c))) % 2
        ELSE 0
ScreenClear == \A cell \in Cells : emu.display[CellIdx(cell)] = 0

\* C7: after DXYN, VF = 1 iff some on-screen pixel that was set before the
\* draw is hit by a 1 bit of the sprite, else VF = 0 whatever it held; on
\* a cleared screen VF = 0 and exactly the sprite's on-screen 1 bits are
\* set (CLS, then 8 set bits at (0,0): pixels 0..7 of row 0 and no other).
C7_DrwCollision ==
    [][ DrwStep
          => /\ emu'.V[15] =
                  (IF \E cell \in Cells : /\ emu.display[CellIdx(cell)] # 0
                                          /\ SpriteBit(cell) = 1
                   THEN 1 ELSE 0)
             /\ ScreenClear
                  => /\ emu'.V[15] = 0
                     /\ \A cell \in Cells :
                           emu'.display[CellIdx(cell)] = SpriteBit(cell)
             /\ (ScreenClear /\ Op = \hD011 /\ emu.V[0] = 0 /\ emu.V[1] = 0
                   /\ emu.I < CHIP8_MEMORY_SIZE /\ emu.memory[emu.I] = 255)
                  => \A cell \in Cells :
                        emu'.display[CellIdx(cell)] =
                          (IF cell[2] = 0 /\ cell[1] < 8 THEN 1 ELSE 0) ]_vars

\* The second glyph of the overlapping pair has been drawn: a collision
C7_Witness ==
    /\ last.op = \hD015
    /\ last.pc = At(7)
    /\ emu.I = 5
    /\ emu.V[15] = 1
    /\ \E cell \in Cells : emu.display[CellIdx(cell)] # 0

\* C8: DXYN starts at (V[x] mod 64, V[y] mod 32); a sprite pixel whose column
\* start_x + c >= 64 or row start_y + r >= 32 changes no screen cell (a cell
\* changes only by the sprite bit that lies on it unwrapped) and sets no
\* collision flag (VF = 1 needs a hit on the screen).
C8_DrwClips ==
    [][ DrwStep
          => /\ \A cell \in Cells :
                   emu'.display[CellIdx(cell)] =
                     BitXor(emu.display[CellIdx(cell)], SpriteBit(cell))
             /\ emu'.V[15] = 1
                  => \E cell \in Cells : /\ emu.display[CellIdx(cell)] # 0
                                         /\ SpriteBit(cell) = 1 ]_vars

\* 8 set bits drawn at (60, 30): columns 60..63 of row 30 are set, the four
\* clipped bits have set nothing in columns 0..3 of rows 30 and 31
C8_Witness ==
    /\ run.rom = Bytes(DrawProg(At(7), 1, 60, 30))
    /\ last.pc = At(3)
    /\ \A cx \in 60..63 : emu.display[30 * DISPLAY_WIDTH + cx] = 1
    /\ \A cx \in 0..3 : /\ emu.display[30 * DISPLAY_WIDTH + cx] = 0
                        /\ emu.display[31 * DISPLAY_WIDTH + cx] = 0
    /\ emu.V[15] = 0

\* The instruction after the DXYN about to run is the same DXYN, and the
\* draw leaves it the same V[x], V[y] and I
DrwTwice ==
    /\ DrwStep
    /\ emu'.state = "RUNNING"
    /\ emu'.pc + 1 < CHIP8_MEMORY_SIZE
    /\ fetch_opcode(emu') = Op
    /\ emu'.V[OpX] = emu.V[OpX]
    /\ emu'.V[OpY] = emu.V[OpY]
    /\ emu'.I = emu.I

\* C9 as stated: the same DXYN twice in a row leaves the screen as it was
\* before the first draw, and VF = 1 whenever the sprite has an on-screen
\* 1 bit.
C9_DrwTwice ==
    [][ DrwTwice
          => LET e2 == chip8_cycle(emu', 0, FALSE)
             IN  /\ e2.display = emu.display
                 /\ (\E cell \in Cells : SpriteBit(cell) = 1) => e2.V[15] = 1 ]_vars

\* C9 as amended: the same DXYN twice in a row leaves the screen as it was
\* before the first draw, and VF = 1 iff an on-screen 1 bit of the sprite
\* lies on a pixel that was clear before the first draw; from a cleared
\* screen that is whenever the sprite has an on-screen 1 bit.
C9_DrwTwiceFromClear ==
    [][ DrwTwice
          => LET e2 == chip8_cycle(emu', 0, FALSE)
             IN  /\ e2.display = emu.display
                 /\ e2.V[15] =
                      (IF \E cell \in Cells : /\ SpriteBit(cell) = 1
                                              /\ emu.display[CellIdx(cell)] = 0
                       THEN 1 ELSE 0)
                 /\ ScreenClear
                      => /\ \A cell \in Cells : e2.display[CellIdx(cell)] = 0
                         /\ (\E cell \in Cells : SpriteBit(cell) = 1)
                              => e2.V[15] = 1 ]_vars

\* The glyph at I = 0 drawn twice at (12, 8) on a cleared screen
C9_Witness ==
    /\ run.rom = Bytes(DrawProg(0, 5, 12, 8))
    /\ last.pc = At(4)
    /\ emu.V[15] = 1
    /\ \A cell \in Cells : emu.display[CellIdx(cell)] = 0

\* FX0A as the instruction about to run, and the lowest key that is down
WaitKeyStep == CycleStep /\ OpHi = 15 /\ OpKK = 10
LowestKeyDown ==
    CHOOSE k \in 0..15 : emu.keys[k] /\ \A j \in 0..(k - 1) : ~emu.keys[j]

\* C10: FX0A with no key down leaves pc, V, I, sp and the stack unchanged
\* and the machine running, so that the next cycle executes the same FX0A,
\* however many cycles have passed; with a key down it sets V[x] to the
\* lowest pressed key and advances pc by 2.  Program F0 0A: pc is 0x200 for
\* as long as no key is down.
C10_WaitKey ==
    /\ [][ WaitKeyStep
             => IF NoKeyDown
                THEN /\ emu'.pc = emu.pc
                     /\ emu'.V = emu.V
                     /\ emu'.I = emu.I
                     /\ emu'.sp = emu.sp
                     /\ emu'.stack = emu.stack
                     /\ emu'.state = "RUNNING"
                     /\ fetch_opcode(emu') = Op
                ELSE /\ emu'.V = [emu.V EXCEPT ![OpX] = LowestKeyDown]
                     /\ emu'.pc = emu.pc + 2 ]_vars
    /\ []( (run.rom = Bytes(<< \hF00A, \h1202 >>) /\ phase = "loop" /\ NoKeyDown)
             => emu.pc = CHIP8_ROM_ENTRY_POINT )

\* Program F0 0A after key 7 went down: V[0] = 7 and pc = 0x202
C10_Witness ==
    /\ run.rom = Bytes(<< \hF00A, \h1202 >>)
    /\ last.op = \hF00A
    /\ emu.keys[7] /\ ~emu.keys[0]
    /\ emu.V[0] = 7
    /\ emu.pc = CHIP8_ROM_ENTRY_POINT + 2

\* C11: a CALL with sp < 16 succeeds: it fills stack[sp] only, raises sp by
\* one and jumps, so 16 nested CALLs from sp = 0 bring sp to 16; a CALL with
\* sp = 16 sets state = Stopped and leaves the stack, sp and pc unchanged.
C11_CallOverflow ==
    [][ (CycleStep /\ OpHi = 2)
          => IF emu.sp < STACK_DEPTH
             THEN /\ emu'.sp = emu.sp + 1
                  /\ emu'.pc = Op % 4096
                  /\ emu'.state = "RUNNING"
                  /\ \A d \in 0..(STACK_DEPTH - 1) :
                        d # emu.sp => emu'.stack[d] = emu.stack[d]
             ELSE /\ emu'.state = "STOPPED"
                  /\ emu'.stack = emu.stack
                  /\ emu'.sp = emu.sp
                  /\ emu'.pc = emu.pc ]_vars

\* The chain of 17 CALLs: 16 went through, one per stack entry, and the
\* 17th, at word 16, stopped the machine
C11_Witness ==
    /\ run.rom = Bytes(CallChain)
    /\ emu.sp = STACK_DEPTH
    /\ emu.state = "STOPPED"
    /\ emu.pc = At(STACK_DEPTH)
    /\ last.pc = At(STACK_DEPTH)
    /\ \A d \in 0..(STACK_DEPTH - 1) : callsite[d] = At(d)

\* The host loop is about to call the cycle with pc + 1 >= 4096
RefusedFetchStep ==
    /\ phase = "loop" /\ running /\ emu.state = "RUNNING"
    /\ emu.pc + 1 >= CHIP8_MEMORY_SIZE
    /\ phase' = "loop" /\ nevents' = nevents /\ clock' = clock

\* C12: a cycle invoked with pc + 1 >= 4096 sets state = Stopped and does
\* nothing else: no memory cell is read (none exists at 4096 or beyond) and
\* pc, V, I, sp, stack, memory, framebuffer, keys and timers are unchanged.
C12_RefusedFetch ==
    [][ RefusedFetchStep
          => /\ emu'.state = "STOPPED"
             /\ emu' = [emu EXCEPT !.state = "STOPPED"]
             /\ emu'.pc = emu.pc
             /\ emu'.V = emu.V /\ emu'.I = emu.I
             /\ emu'.sp = emu.sp /\ emu'.stack = emu.stack
             /\ emu'.memory = emu.memory
             /\ emu'.display = emu.display
             /\ emu'.delay_timer = emu.delay_timer
             /\ emu'.sound_timer = emu.sound_timer ]_vars

\* JP 0xFFF: the cycle at pc = 4095 was refused
C12_Witness ==
    /\ last.pc = CHIP8_MEMORY_SIZE - 1
    /\ last.op = -1
    /\ emu.pc = CHIP8_MEMORY_SIZE - 1
    /\ emu.state = "STOPPED"
    /\ emu.memory[CHIP8_ROM_ENTRY_POINT] = 31

\* C13: once a cycle has stopped the machine (CALL on a full stack, or a
\* fetch refused at the end of memory), every later step of the host loop
\* leaves state = Stopped, calls no cycle, and leaves pc, V, I, sp, stack,
\* memory and framebuffer unchanged.
C13_StoppedLatched ==
    [][ (last.stopped /\ emu.state = "STOPPED")
          => /\ emu'.state = "STOPPED"
             /\ last' = last
             /\ emu'.pc = emu.pc
             /\ emu'.V = emu.V /\ emu'.I = emu.I
             /\ emu'.sp = emu.sp /\ emu'.stack = emu.stack
             /\ emu'.memory = emu.memory
             /\ emu'.display = emu.display ]_vars

\* The 17th CALL of the endless recursion stopped the machine; since then
\* the host has taken two events, one of them key 7 going down, and time
\* has passed
C13_Witness ==
    /\ last.stopped
    /\ last.op = \h2200
    /\ emu.sp = STACK_DEPTH
    /\ emu.state = "STOPPED"
    /\ nevents >= last.nevents + 2
    /\ clock > last.clock
    /\ emu.keys[7]
    /\ phase = "loop"

\* C14: while state is not Running the host loop calls no cycle and no
\* timer tick: every step leaves pc, V, I, sp, stack, memory, framebuffer
\* and both timers unchanged, also when the host itself has set
\* state = Stopped between two cycles.
C14_NotRunningNoStep ==
    [][ emu.state # "RUNNING"
          => /\ last' = last
             /\ lastCount' = lastCount
             /\ emu'.pc = emu.pc
             /\ emu'.V = emu.V /\ emu'.I = emu.I
             /\ emu'.sp = emu.sp /\ emu'.stack = emu.stack
             /\ emu'.memory = emu.memory
             /\ emu'.display = emu.display
             /\ emu'.delay_timer = emu.delay_timer
             /\ emu'.sound_timer = emu.sound_timer ]_vars

\* The timer program was stopped by the host after its FX15, with the delay
\* timer at 2; two tick periods later the timer still reads 2 and pc has
\* not moved
C14_Witness ==
    /\ run.rom = Bytes(<< \h6002, \hF015, \hF018, \hF107, \h1206 >>)
    /\ emu.state = "STOPPED"
    /\ ~last.stopped
    /\ last.op = \hF015
    /\ emu.pc = last.pc + 2
    /\ emu.delay_timer = 2
    /\ clock >= last.clock + 2 * ClockStep

\* Whole 1/60 s intervals between the first call of the timer tick and
\* counter value t
WholeIntervals(t) == (60 * (t - last.first)) \div PerfFrequency

\* C15: over the tick calls of a run, a timer that stays positive is
\* decremented once per whole 1/60 s elapsed since the first call: a call
\* at counter value now, the call before it at last.clock, lowers the delay
\* timer by the number of whole intervals completed between the two.
C15_TickExact ==
    [][ (/\ CycleStep
         /\ last.first # -1
         /\ ~(OpHi = 15 /\ OpKK = 21)
         /\ emu.delay_timer > WholeIntervals(clock) - WholeIntervals(last.clock))
          => emu.delay_timer - emu'.delay_timer =
               WholeIntervals(clock) - WholeIntervals(last.clock) ]_vars

\* C16: the timers never wrap: both are always in 0..255; one decrement
\* leaves a timer that is 0 at 0 and lowers a positive one by exactly 1;
\* and over a step that executes neither FX15 nor FX18 no timer rises and a
\* timer that is 0 stays 0.
C16_TimersSaturate ==
    /\ []( /\ emu.delay_timer \in 0..255
           /\ emu.sound_timer \in 0..255
           /\ LET d == chip8_timers_decrement([emu |-> emu, audio |-> audio]).emu
              IN  /\ d.delay_timer =
                       (IF emu.delay_timer = 0 THEN 0 ELSE emu.delay_timer - 1)
                  /\ d.sound_timer =
                       (IF emu.sound_timer = 0 THEN 0 ELSE emu.sound_timer - 1) )
    /\ [][ ~(CycleStep /\ OpHi = 15 /\ OpKK = 21)
             => emu'.delay_timer <= emu.delay_timer ]_vars
    /\ [][ ~(CycleStep /\ OpHi = 15 /\ OpKK = 24)
             => emu'.sound_timer <= emu.sound_timer ]_vars

\* Both timers were set to 2 and have come down to 0; the tick has
\* decremented at least twice
C16_Witness ==
    /\ run.rom = Bytes(<< \h6002, \hF015, \hF018, \hF107, \h1206 >>)
    /\ emu.pc = At(3)
    /\ emu.delay_timer = 0
    /\ emu.sound_timer = 0
    /\ lastCount >= last.first + 2 * (PerfFrequency \div 60)

\* The decrements the second instance receives if its timers are ticked at
\* counter value now, with the static lastCount at lc
OtherReceives(lc, now) ==
    other.delay_timer
      - chip8_timers_tick_60hz([emu |-> other, audio |-> audio], lc, now).emu.delay_timer

\* C17: with two machine instances, a tick of the timers of the first never
\* changes how many decrements the second receives from its own tick call.
C17_TickIndependent ==
    [][ (other' = other /\ clock' = clock)
          => OtherReceives(lastCount', clock) = OtherReceives(lastCount, clock) ]_vars

\* C18: once the host loop has ticked the timers, in its first iteration
\* and in every later one, the beep is playing iff sound_timer > 0.
C18_BeepTracksSound ==
    (phase = "loop" /\ last.first # -1)
      => (audio_is_beep_playing(audio) <=> emu.sound_timer > 0)

\* C19: the keypad snapshot tracks the physical keys: in the main loop
\* keys[idx] is true exactly when the key mapped to idx is held, after
\* key-down and after key-up events alike.
C19_KeysTrackHeld ==
    phase = "loop" => \A idx \in 0..15 : emu.keys[idx] <=> idx \in held

\* C20: after init (before the ROM is loaded) the machine is in its
\* power-on state: pc = 0x200, state = Running, sp = 0, I = 0, every V
\* register, stack entry, timer, key and framebuffer cell is 0,
\* memory[0..80) is the 80-byte fontset (glyph 0 = F0 90 90 90 F0, ...,
\* glyph F = F0 80 F0 80 80) and memory[80..4096) is 0.
C20_PowerOn ==
    phase = "start"
      => /\ emu.pc = 512
         /\ emu.state = "RUNNING"
         /\ emu.sp = 0 /\ emu.I = 0
         /\ \A r \in 0..15 : emu.V[r] = 0
         /\ \A d \in 0..15 : emu.stack[d] = 0
         /\ emu.delay_timer = 0 /\ emu.sound_timer = 0
         /\ \A k \in 0..15 : emu.keys[k] = FALSE
         /\ \A idx \in 0..2047 : emu.display[idx] = 0
         /\ Len(chip8_fontset) = 80
         /\ \A a \in 0..79 : emu.memory[a] = chip8_fontset[a + 1]
         /\ << emu.memory[0], emu.memory[1], emu.memory[2], emu.memory[3],
               emu.memory[4] >> = << 240, 144, 144, 144, 240 >>
         /\ << emu.memory[75], emu.memory[76], emu.memory[77], emu.memory[78],
               emu.memory[79] >> = << 240, 128, 240, 128, 128 >>
         /\ \A a \in 80..4095 : emu.memory[a] = 0
         /\ DOMAIN emu.memory = 0..4095

C20_Witness ==
    /\ phase = "start"
    /\ emu.pc = 512
    /\ emu.state = "RUNNING"
    /\ emu.memory[79] = 128
    /\ emu.memory[80] = 0
    /\ run.rom = Bytes(<< \hF00A, \h1202 >>)

\* main() is about to load the ROM
LoadStep == phase = "start" /\ phase' # "start"

\* C21: loading a ROM longer than 3584 bytes fails and leaves every field
\* of the machine as it was; a ROM of exactly 3584 bytes is accepted.
C21_RomTooLarge ==
    [][ LoadStep
          => /\ Len(run.rom) > 3584 => (phase' = "exit" /\ emu' = emu)
             /\ Len(run.rom) = 3584 => (phase' = "loop" /\ emu'.memory[4095] = run.rom[3584])
             /\ chip8_load_program(emu, run.rom).ok = (Len(run.rom) <= 3584) ]_vars

\* The ROM of 3585 bytes was refused: main() has left, the machine is as
\* chip8_init made it
C21_Witness ==
    /\ Len(run.rom) = 3585
    /\ phase = "exit"
    /\ emu = chip8_init
    /\ emu.memory[CHIP8_ROM_ENTRY_POINT] = 0

\* C22: a successful load of len bytes changes only
\* memory[0x200 .. 0x200+len), which then holds the ROM bytes; the fontset,
\* the memory from 0x200+len on, pc (0x200), the registers, the stack, the
\* timers, the keys and the framebuffer are unchanged.
C22_LoadFrame ==
    [][ (LoadStep /\ phase' = "loop")
          => /\ \A a \in 0..(CHIP8_MEMORY_SIZE - 1) :
                   emu'.memory[a] =
                     (IF a >= 512 /\ a < 512 + Len(run.rom)
                      THEN run.rom[a - 511]
                      ELSE emu.memory[a])
             /\ \A a \in 0..79 : emu'.memory[a] = chip8_fontset[a + 1]
             /\ emu'.pc = 512
             /\ emu' = [emu EXCEPT !.memory = emu'.memory] ]_vars

\* The 12-byte key-test program has just been loaded and no cycle has run:
\* its first and last bytes are in place, the cell after it is still 0 and
\* the fontset still starts at address 0
C22_Witness ==
    /\ phase = "loop"
    /\ last.pc = -1
    /\ run.rom = Bytes(<< \h6020, \hE09E, \hE0A1, \h7001, \h70FF, \h120A >>)
    /\ emu.memory[512] = 96
    /\ emu.memory[523] = 10
    /\ emu.memory[524] = 0
    /\ emu.memory[0] = 240
    /\ emu.pc = 512

\* The five instructions of S1Rom have been executed, the DRW last
AfterS1 ==
    /\ run.rom = S1Rom
    /\ phase = "loop"
    /\ last.pc = 520
    /\ last.op = \hD01F

\* The five rows F0 90 90 90 F0 of glyph 0 are on the screen with their
\* top-left corner at (12, 8)
S1GlyphShown ==
    \A r \in 0..4, c \in 0..7 :
        emu.display[(8 + r) * DISPLAY_WIDTH + 12 + c]
          = (chip8_fontset[r + 1] \div (2 ^ (7 - c))) % 2

\* C23 as stated: after the 5 steps of S1 the framebuffer contains the
\* 0-digit font sprite at (12,8), I = 0x22A, V0 = 0x0C, V1 = 0x08,
\* pc = 0x20A and VF = 0.
C23_S1 ==
    AfterS1 => /\ S1GlyphShown
               /\ emu.I = 554 /\ emu.V[0] = 12 /\ emu.V[1] = 8
               /\ emu.pc = 522 /\ emu.V[15] = 0

\* C23: after init, loading the 10 bytes 00 E0 A2 2A 60 0C 61 08 D0 1F and
\* executing 5 steps, the framebuffer is entirely clear (the 15 sprite rows
\* read from memory[0x22A..] lie after the ROM and are 0), I = 0x22A,
\* V0 = 0x0C, V1 = 0x08, pc = 0x20A and VF = 0.
C23_S1Clear ==
    AfterS1 => /\ ScreenClear
               /\ \A r \in 0..14 : emu.memory[554 + r] = 0
               /\ emu.I = 554 /\ emu.V[0] = 12 /\ emu.V[1] = 8
               /\ emu.pc = 522 /\ emu.V[15] = 0

C23_Witness ==
    /\ AfterS1
    /\ emu.pc = 522
    /\ emu.I = 554
    /\ emu.display[8 * DISPLAY_WIDTH + 12] = 0

\* The machine executes EX9E or EXA1
KeySkipStep == CycleStep /\ OpHi = 14 /\ OpKK \in {158, 161}

\* C24: for every value of V[x], EX9E skips (pc += 4) iff keys[V[x] & 0xF]
\* is down and EXA1 skips iff keys[V[x] & 0xF] is not down, otherwise
\* pc += 2: the key read is the one at index V[x] & 0xF, inside [0,16).
C24_KeySkipMasked ==
    [][ KeySkipStep
          => LET down == emu.keys[emu.V[OpX] % 16]
                 skip == IF OpKK = 158 THEN down ELSE ~down
             IN  emu'.pc = emu.pc + (IF skip THEN 4 ELSE 2) ]_vars

\* The machine executes FX29
FontStep == CycleStep /\ OpHi = 15 /\ OpKK = 41

\* C25: for every value of V[x], FX29 sets I = (V[x] & 0x0F) * 5, the
\* address of the first byte of one of the 16 font glyphs: I <= 75 and
\* I mod 5 = 0.
C25_FontAddress ==
    [][ FontStep
          => /\ emu'.I = (emu.V[OpX] % 16) * 5
             /\ emu'.I <= 75
             /\ emu'.I % 5 = 0 ]_vars

\* The machine executes FX1E
AddIStep == CycleStep /\ OpHi = 15 /\ OpKK = 30

\* C26: I exceeds 0x0FFF only through FX1E: ANNN and FX29 leave I < 4096,
\* no instruction other than ANNN, FX1E and FX29 changes I, and FX1E leaves
\* I = (old I + V[x]) mod 65536 with VF as it was.
C26_IndexRange ==
    [][ CycleStep
          => /\ OpHi = 10 => emu'.I = Op % 4096
             /\ FontStep => emu'.I < 4096
             /\ AddIStep => /\ emu'.I = (emu.I + emu.V[OpX]) % 65536
                            /\ emu'.V[15] = emu.V[15]
             /\ ~(OpHi = 10 \/ FontStep \/ AddIStep) => emu'.I = emu.I
             /\ emu'.I > 4095 => (AddIStep \/ emu.I > 4095) ]_vars

\* FX1E with V0 = 128 and VF = 1, repeated from I = 0xFFF, has carried I
\* past 65535: from 0xFFFF to 0x007F, VF still 1
C26_Witness ==
    /\ phase = "loop"
    /\ last.op = \hF01E
    /\ emu.V[0] = 128
    /\ emu.I = 127
    /\ emu.V[15] = 1

\* C27: 7XKK leaves V[x] = (old V[x] + kk) mod 256; for x # F, VF and
\* every other register are unchanged, also when the sum passes 255.
C27_AddImmediate ==
    [][ (CycleStep /\ OpHi = 7)
          => /\ emu'.V[OpX] = (emu.V[OpX] + OpKK) % 256
             /\ \A r \in 0..15 : r # OpX => emu'.V[r] = emu.V[r] ]_vars

\* 7002 with V0 = 0xFF and VF = 1 has left V0 = 1 and VF = 1
C27_Witness ==
    /\ phase = "loop"
    /\ last.op = \h7002
    /\ emu.V[0] = 1
    /\ emu.V[15] = 1

\* The machine executes 00EE with nothing on the stack
RetEmptyStep == CycleStep /\ Op = 238 /\ emu.sp = 0

\* C28: 00EE with sp = 0 is a stack underflow: sp stays 0, the stack is
\* unchanged, the state stays Running and pc advances by 2.
C28_RetUnderflow ==
    [][ RetEmptyStep
          => /\ emu'.sp = 0
             /\ emu'.stack = emu.stack
             /\ emu'.state = "RUNNING"
             /\ emu'.pc = emu.pc + 2 ]_vars

\* The program 00EE 1202 has executed its 00EE at 0x200 with an empty stack
C28_Witness ==
    /\ run.rom = Bytes(<< \h00EE, \h1202 >>)
    /\ phase = "loop"
    /\ last.pc = 512
    /\ last.op = 238
    /\ emu.pc = 514
    /\ emu.sp = 0
    /\ emu.state = "RUNNING"

\* The 16-bit words of the instruction table
IsInstruction(op) ==
    LET hi == op \div 4096
        n  == op % 16
        kk == op % 256
    IN  CASE hi = 5 \/ hi = 9 -> n = 0
          [] hi = 8  -> n \in (0..7) \cup {14}
          [] hi = 14 -> kk \in {158, 161}
          [] hi = 15 -> kk \in {7, 10, 21, 24, 30, 41, 51, 85, 101}
          [] OTHER   -> TRUE

\* The machine executes a word that is not an instruction
UnknownStep == CycleStep /\ ~IsInstruction(Op)

\* C29: executing a 16-bit word that is not an instruction of the table
\* (8XY8, 5XY1, 9XY1, EX00, FXFF, ...) is recoverable: pc advances by
\* exactly 2 and registers, I, memory, stack, sp, framebuffer, timers and
\* state are unchanged.
C29_UnknownOpcode ==
    [][ UnknownStep
          => /\ emu'.pc = emu.pc + 2
             /\ emu'.V = emu.V
             /\ emu'.I = emu.I
             /\ emu'.memory = emu.memory
             /\ emu'.stack = emu.stack
             /\ emu'.sp = emu.sp
             /\ emu'.display = emu.display
             /\ emu'.delay_timer = emu.delay_timer
             /\ emu'.sound_timer = emu.sound_timer
             /\ emu'.state = emu.state ]_vars

\* The machine executes FX33
BcdStep == CycleStep /\ OpHi = 15 /\ OpKK = 51

\* C30: FX33 with I + 2 < 4096 stores the hundreds, tens and ones digits of
\* V[x] at memory[I], memory[I+1], memory[I+2] (each digit <= 9 and
\* 100*m[I] + 10*m[I+1] + m[I+2] = V[x]) and changes no other cell; with
\* I + 2 >= 4096 it writes nothing.  In both cases pc advances by 2 and the
\* state stays Running.
C30_Bcd ==
    [][ BcdStep
          => /\ emu'.pc = emu.pc + 2
             /\ emu'.state = "RUNNING"
             /\ IF emu.I + 2 < 4096
                THEN /\ \A a \in 0..(CHIP8_MEMORY_SIZE - 1) :
                           (a < emu.I \/ a > emu.I + 2) => emu'.memory[a] = emu.memory[a]
                     /\ \A d \in 0..2 : emu'.memory[emu.I + d] <= 9
                     /\ 100 * emu'.memory[emu.I] + 10 * emu'.memory[emu.I + 1]
                          + emu'.memory[emu.I + 2] = emu.V[OpX]
                ELSE emu'.memory = emu.memory ]_vars

\* With V0 = 254, FX33 at I = 4093 has stored 2, 5, 4 in the last three
\* cells and the FX33 at I = 4094 that followed has left them alone
C30_Witness ==
    /\ phase = "loop"
    /\ last.pc = 520
    /\ last.op = \hF033
    /\ emu.I = 4094
    /\ emu.V[0] = 254
    /\ emu.memory[4093] = 2
    /\ emu.memory[4094] = 5
    /\ emu.memory[4095] = 4
    /\ emu.pc = 522
    /\ emu.state = "RUNNING"

\* The machine executes FX55
StoreStep == CycleStep /\ OpHi = 15 /\ OpKK = 85

\* C31: FX55 writes V[j] to memory[I+j] for exactly those j in 0..x with
\* I + j < 4096, drops the writes with I + j >= 4096, changes no other
\* memory cell, leaves I and all registers unchanged, and advances pc by 2
\* with the state still Running.
C31_StoreRegs ==
    [][ StoreStep
          => /\ \A a \in 0..(CHIP8_MEMORY_SIZE - 1) :
                   emu'.memory[a] =
                     (IF a >= emu.I /\ a <= emu.I + OpX
                      THEN emu.V[a - emu.I]
                      ELSE emu.memory[a])
             /\ DOMAIN emu'.memory = 0..(CHIP8_MEMORY_SIZE - 1)
             /\ emu'.I = emu.I
             /\ emu'.V = emu.V
             /\ emu'.pc = emu.pc + 2
             /\ emu'.state = "RUNNING" ]_vars

\* F355 at I = 0xFFE has stored V0 and V1 in the last two cells; V2 and V3
\* had no cell to go to and memory[0], memory[1] still hold the fontset
C31_Witness ==
    /\ phase = "loop"
    /\ last.op = \hF355
    /\ emu.I = 4094
    /\ emu.V[2] = 51
    /\ emu.memory[4094] = 17
    /\ emu.memory[4095] = 34
    /\ emu.memory[0] = 240
    /\ emu.memory[1] = 144
    /\ emu.state = "RUNNING"

\* The machine executes FX65
LoadRegsStep == CycleStep /\ OpHi = 15 /\ OpKK = 101

\* The run is a round-trip program; its x, the registers as its FX55 found
\* them and as its FX65 found them
IsRoundTrip == \E x \in RoundTripX : run.rom = Bytes(RoundTripProg(x))
RoundTripReg == run.rom[13] % 16
SavedAtStore == [j \in 0..15 |-> CASE j = 0 -> 17 [] j = 1 -> 34 [] j = 2 -> 51
                                    [] j = 3 -> 68 [] j = 15 -> 85 [] OTHER -> 0]
ClobberedAtLoad == [j \in 0..15 |-> CASE j = 0 -> 253 [] j = 1 -> 254 [] j = 2 -> 253
                                       [] j = 3 -> 252 [] j = 15 -> 1 [] OTHER -> 0]

\* The FX65 of a round-trip program has been executed
AfterRoundTrip ==
    /\ IsRoundTrip
    /\ phase = "loop"
    /\ last.pc = At(12)
    /\ last.op = OpXKK(15, RoundTripReg, 101)

\* C32: FX55 followed later by FX65 with the same x and the same I
\* (I + x < 4096, memory[I..I+x] not written in between) restores V[0..x]
\* to the values they had at the FX55, whatever was done to the registers
\* in between, and FX65 leaves V[x+1..F], I and memory unchanged.
C32_RoundTrip ==
    /\ [](AfterRoundTrip
            => /\ \A j \in 0..15 :
                     emu.V[j] = IF j <= RoundTripReg THEN SavedAtStore[j]
                                                    ELSE ClobberedAtLoad[j]
               /\ emu.I = 768)
    /\ [][ LoadRegsStep
             => /\ \A j \in 0..15 :
                      (j > OpX => emu'.V[j] = emu.V[j])
                /\ \A j \in 0..OpX :
                      (emu.I + j < CHIP8_MEMORY_SIZE => emu'.V[j] = emu.memory[emu.I + j])
                /\ emu'.I = emu.I
                /\ emu'.memory = emu.memory ]_vars

\* F265 after F255 and five overwrites: V0..V2 are back at 0x11, 0x22, 0x33;
\* V3 and VF keep what the overwrites left
C32_Witness ==
    /\ AfterRoundTrip
    /\ RoundTripReg = 2
    /\ emu.V[0] = 17 /\ emu.V[1] = 34 /\ emu.V[2] = 51
    /\ emu.V[3] = 252
    /\ emu.V[15] = 1
    /\ emu.I = 768

\* The machine executes DXYN with a sprite that runs past the end of memory
DrwPastEndStep == DrwStep /\ OpN > 0 /\ emu.I + OpN - 1 >= CHIP8_MEMORY_SIZE

\* The rows of the sprite that lie inside memory
RowsInMemory ==
    IF emu.I >= CHIP8_MEMORY_SIZE THEN 0 ELSE CHIP8_MEMORY_SIZE - emu.I

\* C33: DXYN with I + r >= 4096 for some row r < n draws rows 0..r-1
\* normally, stops at row r without reading memory at an index >= 4096 and
\* without drawing later rows, and still advances pc by 2 with the state
\* remaining Running.
C33_DrwPastEnd ==
    [][ DrwPastEndStep
          => /\ \A cell \in Cells :
                   LET c == cell[1] - DrwStartX
                       r == cell[2] - DrwStartY
                   IN  emu'.display[CellIdx(cell)] =
                         IF c \in 0..7 /\ r \in 0..(RowsInMemory - 1)
                         THEN BitXor(emu.display[CellIdx(cell)],
                                     (emu.memory[emu.I + r] \div (2 ^ (7 - c))) % 2)
                         ELSE emu.display[CellIdx(cell)]
             /\ emu'.memory = emu.memory
             /\ emu'.pc = emu.pc + 2
             /\ emu'.state = "RUNNING" ]_vars

\* D014 at (2,3) with I = 0xFFE: the rows FF and 81 of the last two cells
\* are on lines 3 and 4, lines 5 and 6 are empty
C33_Witness ==
    /\ phase = "loop"
    /\ last.op = \hD014
    /\ emu.I = 4094
    /\ \A c \in 0..7 : emu.display[3 * DISPLAY_WIDTH + 2 + c] = 1
    /\ emu.display[4 * DISPLAY_WIDTH + 2] = 1
    /\ emu.display[4 * DISPLAY_WIDTH + 3] = 0
    /\ emu.display[4 * DISPLAY_WIDTH + 9] = 1
    /\ \A c \in 0..7 : /\ emu.display[5 * DISPLAY_WIDTH + 2 + c] = 0
                        /\ emu.display[6 * DISPLAY_WIDTH + 2 + c] = 0
    /\ emu.pc = At(10)
    /\ emu.state = "RUNNING"

\* The machine executes 3XKK, 4XKK, 5XY0 or 9XY0
SkipStep ==
    /\ CycleStep
    /\ \/ OpHi \in {3, 4}
       \/ OpHi \in {5, 9} /\ OpN = 0

\* The condition of the skip instruction about to be executed
SkipCondition ==
    CASE OpHi = 3 -> emu.V[OpX] = OpKK
      [] OpHi = 4 -> emu.V[OpX] # OpKK
      [] OpHi = 5 -> emu.V[OpX] = emu.V[OpY]
      [] OpHi = 9 -> emu.V[OpX] # emu.V[OpY]

\* C34: 3XKK, 4XKK, 5XY0 and 9XY0 advance pc by 4 exactly when their
\* condition holds (V[x] = kk, V[x] # kk, V[x] = V[y], V[x] # V[y]) and by
\* 2 otherwise, and change nothing but pc.
C34_Skips ==
    [][ SkipStep
          => /\ emu'.pc = emu.pc + (IF SkipCondition THEN 4 ELSE 2)
             /\ emu'.V = emu.V
             /\ emu'.I = emu.I
             /\ emu'.memory = emu.memory
             /\ emu'.stack = emu.stack
             /\ emu'.sp = emu.sp
             /\ emu'.display = emu.display
             /\ emu'.keys = emu.keys
             /\ emu'.delay_timer = emu.delay_timer
             /\ emu'.sound_timer = emu.sound_timer
             /\ emu'.state = emu.state ]_vars

\* The skip program has taken 5010 (V0 = V1) from word 8 to word 10 and
\* then 5020 (V0 # V2) from word 10 to word 11
C34_Witness ==
    /\ run.rom \in SkipRoms
    /\ phase = "loop"
    /\ last.pc = At(10)
    /\ last.op = \h5020
    /\ emu.pc = At(11)
    /\ emu.V[0] = 5 /\ emu.V[1] = 5 /\ emu.V[2] = 0

\* C35: for every opcode and every reachable value of pc, I, sp and the V
\* registers, each access a step makes to memory uses an index in
\* [0,4096), each access to the framebuffer an index in [0,2048), and each
\* access to the stack an index in [0,16).
C35_IndicesInRange ==
    /\ [](phase = "loop"
            => /\ memory_indices(emu) \subseteq 0..(CHIP8_MEMORY_SIZE - 1)
               /\ memory_indices(emu) \subseteq DOMAIN emu.memory
               /\ display_indices(emu) \subseteq 0..(DISPLAY_WIDTH * DISPLAY_HEIGHT - 1)
               /\ display_indices(emu) \subseteq DOMAIN emu.display
               /\ stack_indices(emu) \subseteq 0..(STACK_DEPTH - 1)
               /\ stack_indices(emu) \subseteq DOMAIN emu.stack)
    \* a step changes no cell other than those it accesses
    /\ [][ CycleStep
             => /\ emu'.memory =
                     [a \in memory_indices(emu) |-> emu'.memory[a]] @@ emu.memory
                /\ emu'.display =
                     [a \in display_indices(emu) |-> emu'.display[a]] @@ emu.display
                /\ emu'.stack =
                     [a \in stack_indices(emu) |-> emu'.stack[a]] @@ emu.stack ]_vars

\* The machine is about to execute D014 at (2,3) with I = 0xFFE: the step
\* reads the instruction and the last two cells of memory and touches 16
\* pixels, the last of them at index 4 * 64 + 9
C35_Witness ==
    /\ Executes
    /\ Op = \hD014
    /\ emu.I = 4094
    /\ memory_indices(emu) = {emu.pc, emu.pc + 1, 4094, 4095}
    /\ Cardinality(display_indices(emu)) = 16
    /\ 4 * DISPLAY_WIDTH + 9 \in display_indices(emu)
    /\ stack_indices(emu) = {}

\* The CPU is at FX0A with no key in the keypad snapshot
BlockedOnKey ==
    /\ Executes
    /\ OpHi = 15 /\ OpKK = 10
    /\ NoKeyDown

\* Whole 1/60 s intervals between the timer clock's lastCount and now
IntervalsDue ==
    IF lastCount = 0 THEN 0 ELSE (60 * (clock - lastCount)) \div PerfFrequency

\* The wait has begun with the delay timer positive, the timer clock
\* started, and at least delay_timer intervals of the run still to come
WaitWithTimeLeft ==
    /\ BlockedOnKey
    /\ emu.delay_timer > 0
    /\ lastCount # 0
    /\ 60 * (run.clock_end - lastCount) >= emu.delay_timer * PerfFrequency

\* The delay timer is 0, or the wait is over: a key is down or the machine
\* or the loop has stopped
WaitOverOrTimerZero ==
    \/ emu.delay_timer = 0
    \/ ~NoKeyDown
    \/ emu.state # "RUNNING"
    \/ phase # "loop"

\* C36: while the CPU is blocked on FX0A with no key held, the host loop
\* keeps ticking the timers and refreshing the keypad: an iteration in
\* which FX0A stays blocked still lowers the delay timer by the intervals
\* that are due; a key that goes down during the wait is in the keypad
\* snapshot at once and the next step leaves the wait; and a positive
\* delay_timer counts down to 0 as time passes (if the wait lasts and the
\* run has at least delay_timer intervals of time left).
C36_WaitKeepsTicking ==
    /\ [][ (CycleStep /\ BlockedOnKey)
             => /\ emu'.pc = emu.pc
                /\ emu'.delay_timer =
                     (IF emu.delay_timer > IntervalsDue
                      THEN emu.delay_timer - IntervalsDue ELSE 0) ]_vars
    /\ [][ (BlockedOnKey /\ held' # held)
             => /\ \A k \in held' \ held : emu'.keys[k]
                /\ emu'.pc = emu.pc ]_vars
    /\ [][ (WaitKeyStep /\ ~NoKeyDown) => emu'.pc = emu.pc + 2 ]_vars
    /\ (WaitWithTimeLeft ~> WaitOverOrTimerZero)

\* The program waits at its FX0A, whose last execution found no key, and
\* the delay timer it had set to 1 has come down to 0 meanwhile
C36_Witness ==
    /\ run.rom = WaitTimerRom
    /\ BlockedOnKey
    /\ emu.pc = At(2)
    /\ last.pc = At(2)
    /\ last.op = \hF00A
    /\ emu.delay_timer = 0
    /\ lastCount >= last.first + (PerfFrequency \div 60)

\* What a cycle leaves in the timers, whatever the random byte and the
\* out-of-bounds read
CycleKeepsTimers ==
    \A rnd \in RndChoices(emu), oob \in OobChoices(emu) :
        LET e1 == chip8_cycle(emu, rnd, oob)
        IN  /\ (OpHi = 15 /\ OpKK = 21) \/ e1.delay_timer = emu.delay_timer
            /\ (OpHi = 15 /\ OpKK = 24) \/ e1.sound_timer = emu.sound_timer

\* The tick reference that one call at the time of the latest tick leaves
\* when it follows the first call directly, no step and no tick in between
ReferenceOfOneTick ==
    chip8_timers_tick_60hz([emu |-> emu, audio |-> audio],
                           last.first, last.clock).lastCount

\* C37: timer decrements are independent of the CPU step rate: a cycle
\* changes delay_timer only when it executes FX15 and sound_timer only when
\* it executes FX18; and the decrements the ticks have performed between
\* the first tick and the latest one (each moves lastCount on by one
\* truncated interval) are those of a single tick over the same time,
\* however many steps, each with its tick, were executed in between.
C37_StepRateIndependent ==
    /\ [](Executes => CycleKeepsTimers)
    /\ [](last.first # -1 => lastCount = ReferenceOfOneTick)

\* The latest cycle latched state = Stopped and the main loop is still on
StoppedByStep ==
    /\ phase = "loop"
    /\ last.stopped
    /\ emu.state = "STOPPED"

LoopLeft == phase = "exit"

\* C38: after a cycle has latched state = Stopped (stack overflow or pc out
\* of bounds) the main loop runs no further cycle, and it is left in the
\* end, whether or not another input event arrives.
C38_StoppedExits ==
    /\ [][ StoppedByStep => (last' = last /\ emu'.pc = emu.pc) ]_vars
    /\ (StoppedByStep ~> LoopLeft)

\* C39: when audio is disabled in the configuration, so that audio_init is
\* never called, no timer decrement starts the beep or calls the mixer to
\* play it, whatever value sound_timer takes.
C39_SilentWhenDisabled ==
    ~run.audio_enabled
      => /\ ~audio_is_beep_playing(audio)
         /\ ~audio.mix_play_called

====
